---- MODULE Spec2Model ----
(***************************************************************************)
(* Model of the LOB matching engine (src/engine.py) and of the REST        *)
(* handlers that drive it (src/app_original.py).                           *)
(*                                                                         *)
(* Quantities are counted in lots of 0.05, so that 0.1 is 2 lots and 0.05  *)
(* is 1 lot (the code holds them as floats; rounding is not modelled);     *)
(* prices are the numbers the code compares.  Order and trade ids (uuid4   *)
(* strings in the code) are the submission numbers 1, 2, ...; user ids and *)
(* timestamps take no part in matching and are left out.  NObs trade       *)
(* observers and NObs order observers are registered from the start.       *)
(*                                                                         *)
(* The second part models the margin exchange (src/exchange.py): balances, *)
(* positions, exposures, the hedging engine and its venue client, and the  *)
(* quotes of the market maker.  Money is in MNT and sizes are in whole     *)
(* contracts, in exact arithmetic where the code uses floats.              *)
(***************************************************************************)
EXTENDS Integers, Sequences, FiniteSets, TLC

\* ---------------------------------------------------------------- bounds
MaxOrders == 3      \* orders submitted in one behaviour
MaxQty == 2         \* largest quantity of an order, in lots
NObs == 2           \* registered trade observers, and order observers
MaxObsOrders == 2   \* orders submitted while an observer may raise
MaxConcQty == 1     \* largest quantity of an order of a concurrent request
MaxLimit == 2       \* largest limit of a recent-trades query
MaxLevels == 3      \* largest number of levels of a depth query
MaxExOps == 4       \* Exchange calls made in one behaviour
MaxHedgeOps == 3    \* calls started by the threads of the hedging steps
MaxQuotes == 4      \* streamed quotes handled by the index service
MaxNow == 963       \* last clock reading of the update loop, in half minutes
MaxLate == 1        \* most half minutes by which the update loop oversleeps

Symbols == {"BTC-PERP", "ETH-PERP"}
Prices == {0, 49000, 50000}
Qtys == {-1} \cup (0..MaxQty)
Sides == {"BUY", "SELL"}
OrderTypes == {"LIMIT", "MARKET"}
\* an observer that raises when it is called: none, or one of the registered
NoBad == <<"none", 0>>
BadObservers == {NoBad} \cup ({"trade", "order"} \X (1..NObs))
\* the request threads of the concurrent specification
Threads == {1, 2}
\* the orders the single-symbol specifications submit
MainSymbols == {"BTC-PERP"}
ValidPrices == Prices \ {0}

Users == {"alice", "bob"}
ExSymbols == {"XAU-MNT", "USD-MNT"}
UnknownSymbols == {"XYZ-MNT"}
ExSides == {"long", "short"}
ExSizes == {1, 6}
DepositAmounts == {1000000, 0, -1000000}
WithdrawAmounts == {950000}
PositiveDeposits == {1000000, 640000}
Clients == {"none", "client"}
Outcomes == {"id", "none", "raise"}

\* the symbols the index service tracks, and the mids the feed may stream,
\* in thousandths (800000 is 800.000); a mid is a whole number of units
IdxSymbols == {"XAU-PERP", "EUR-USD-PERP"}
Mids == {0, 780000, 796000, 800000}
\* the times, in half minutes, at which the service may be started
StartTimes == {956, 957}
\* the quotes the market maker may publish for a symbol
QuoteSet(symbol) ==
    IF symbol = "XAU-MNT"
    THEN {[bid |-> 1980000, ask |-> 2000000], [bid |-> 2080000, ask |-> 2100000]}
    ELSE {[bid |-> 3400, ask |-> 3450]}

VARIABLES
    books,      \* MatchingEngine._books: symbol -> OrderBook
    orders,     \* every Order object created so far, by id
    trades,     \* MatchingEngine._trades, the tape
    tradeSeen,  \* per trade observer, the trades it was handed (tape indexes)
    orderSeen,  \* per order observer, the <<id, status, filled>> it was handed
    last,       \* the last call and what it returned
    pc,         \* per request thread, the statement it is at
    loc,        \* per request thread, its local variables
    balances,       \* Exchange.balances: user_id -> MNT balance
    positions,      \* Exchange.positions: user_id -> list of Position
    all_positions,  \* Exchange.all_positions: symbol -> list of Position
    exposures,      \* HedgingEngine.exposures: symbol -> ExchangeExposure
    quotes,         \* MarketMaker.quotes: symbol -> quote
    venueCalls,     \* the fxcm.open_position calls made so far
    hlock,          \* HedgingEngine._lock
    xlock,          \* Exchange._lock
    fxcm,           \* the fxcm_client the Exchange was constructed with
    ops,            \* the number of Exchange calls made so far
    prices,         \* IndexPriceService._prices
    funding_rates,  \* IndexPriceService._funding_rates
    running,        \* IndexPriceService._running
    now,            \* time.time() as the update loop reads it next
    settlements,    \* the calls of _process_funding_payment made so far
    nquotes         \* the number of quotes streamed so far

engineVars == <<books, orders, trades, tradeSeen, orderSeen>>
exVars == <<balances, positions, all_positions, exposures, quotes, venueCalls,
            hlock, xlock, fxcm, ops>>
idxVars == <<prices, funding_rates, running, now, settlements, nquotes>>
vars == <<books, orders, trades, tradeSeen, orderSeen, last, pc, loc, exVars,
          idxVars>>

\* ------------------------------------------------------------- helpers
Min(S) == CHOOSE x \in S : \A y \in S : x <= y
Max(S) == CHOOSE x \in S : \A y \in S : x >= y
MinOf(a, b) == IF a <= b THEN a ELSE b

RECURSIVE SumSet(_, _)
SumSet(S, f) == IF S = {} THEN 0
                ELSE LET x == CHOOSE y \in S : TRUE
                     IN f[x] + SumSet(S \ {x}, f)

NoLevels == [p \in {} |-> <<>>]
SetLevel(m, p, seq) == [q \in DOMAIN m \cup {p} |-> IF q = p THEN seq ELSE m[q]]
DelLevel(m, p) == [q \in DOMAIN m \ {p} |-> m[q]]
SeqWithout(seq, x) == SelectSeq(seq, LAMBDA y : y # x)
InSeq(seq, x) == \E i \in 1..Len(seq) : seq[i] = x

\* Order.remaining
remaining(o) == o.quantity - o.filled

\* create_order: a fresh Order, filled 0, status NEW
create_order(symbol, side, order_type, price, quantity) ==
    [symbol |-> symbol, side |-> side, order_type |-> order_type,
     price |-> price, quantity |-> quantity, filled |-> 0, status |-> "NEW"]

\* OrderBook.__init__
OrderBook == [bids |-> NoLevels, asks |-> NoLevels, index |-> {}]

\* the side of the book an order of this side rests on
BookSide(side) == IF side = "BUY" THEN "bids" ELSE "asks"

\* OrderBook.get_best_bid / get_best_ask; "None" when the side is empty
get_best_bid(b) == IF DOMAIN b.bids = {} THEN "None" ELSE Max(DOMAIN b.bids)
get_best_ask(b) == IF DOMAIN b.asks = {} THEN "None" ELSE Min(DOMAIN b.asks)

\* SortedDict.peekitem(0)[0] of one side: bids are keyed descending
peek_price(b, bside) ==
    IF bside = "bids" THEN Max(DOMAIN b.bids) ELSE Min(DOMAIN b.asks)

\* the lookup that gives every other symbol a new book
get_or_create_book_alone(st, symbol) ==
    [st EXCEPT !.books = [s \in DOMAIN st.books \cup {symbol} |->
                            IF s = symbol /\ s \in DOMAIN st.books
                            THEN st.books[s] ELSE OrderBook]]

\* MatchingEngine.get_or_create_book
get_or_create_book(st, symbol) ==
    IF symbol \in DOMAIN st.books THEN st
    ELSE [st EXCEPT !.books = [s \in DOMAIN st.books \cup {symbol} |->
                                 IF s = symbol THEN OrderBook ELSE st.books[s]]]

\* add_order with the new order put at the head of its level
add_order_front(st, id) ==
    LET o == st.orders[id]
        b == st.books[o.symbol]
        bs == BookSide(o.side)
        old == IF o.price \in DOMAIN b[bs] THEN b[bs][o.price] ELSE <<>>
    IN [st EXCEPT !.books[o.symbol] =
            [b EXCEPT ![bs] = SetLevel(b[bs], o.price, <<id>> \o old),
                      !.index = b.index \cup {id}]]

\* OrderBook.add_order
add_order(st, id) ==
    LET o == st.orders[id]
        b == st.books[o.symbol]
        bs == BookSide(o.side)
        old == IF o.price \in DOMAIN b[bs] THEN b[bs][o.price] ELSE <<>>
    IN [st EXCEPT !.books[o.symbol] =
            [b EXCEPT ![bs] = SetLevel(b[bs], o.price, Append(old, id)),
                      !.index = b.index \cup {id}]]

\* the observers a notification reaches before it ends: all of them, or those
\* registered before the one that raises
Reached(kind, bad) == IF bad[1] = kind THEN 1..(bad[2] - 1) ELSE 1..NObs

\* the notification that stops after the first trade observer
notify_trade_first_only(st, k, bad) ==
    IF st.raised THEN st
    ELSE [st EXCEPT !.tradeSeen = [i \in 1..NObs |->
                        IF i = 1 THEN Append(st.tradeSeen[i], k)
                        ELSE st.tradeSeen[i]],
                    !.raised = (bad[1] = "trade")]

\* MatchingEngine._notify_trade, for the trade at tape index k
notify_trade(st, k, bad) ==
    IF st.raised THEN st
    ELSE [st EXCEPT !.tradeSeen = [i \in 1..NObs |->
                        IF i \in Reached("trade", bad)
                        THEN Append(st.tradeSeen[i], k) ELSE st.tradeSeen[i]],
                    !.raised = (bad[1] = "trade")]

\* MatchingEngine._notify_order
notify_order(st, id, bad) ==
    IF st.raised THEN st
    ELSE LET o == st.orders[id]
             ev == <<id, o.status, o.filled>>
         IN [st EXCEPT !.orderSeen = [i \in 1..NObs |->
                        IF i \in Reached("order", bad)
                        THEN Append(st.orderSeen[i], ev) ELSE st.orderSeen[i]],
                    !.raised = (bad[1] = "order")]

\* the trade quantity taken from the resting order alone
trade_qty_resting(a, r) == remaining(r)

\* the quantity of one trade
trade_qty(a, r) == MinOf(remaining(a), remaining(r))

\* the status _execute_trade gives an order after a fill
fill_status(o) == IF remaining(o) = 0 THEN "FILLED" ELSE "PARTIAL"

\* the Trade record priced at the aggressor's own price
make_trade_aggressor_price(a, aid, rid, price, qty) ==
    [symbol |-> a.symbol, price |-> a.price, quantity |-> qty,
     buyer_order_id |-> IF a.side = "BUY" THEN aid ELSE rid,
     seller_order_id |-> IF a.side = "BUY" THEN rid ELSE aid]

\* the Trade record _execute_trade builds
make_trade(a, aid, rid, price, qty) ==
    [symbol |-> a.symbol, price |-> price, quantity |-> qty,
     buyer_order_id |-> IF a.side = "BUY" THEN aid ELSE rid,
     seller_order_id |-> IF a.side = "BUY" THEN rid ELSE aid]

\* MatchingEngine._execute_trade
execute_trade(st, aid, rid, price, bad) ==
    LET qty == trade_qty(st.orders[aid], st.orders[rid])
        a1 == [st.orders[aid] EXCEPT !.filled = @ + qty]
        r1 == [st.orders[rid] EXCEPT !.filled = @ + qty]
        a2 == [a1 EXCEPT !.status = fill_status(a1)]
        r2 == [r1 EXCEPT !.status = fill_status(r1)]
        s1 == [st EXCEPT !.orders = [st.orders EXCEPT ![aid] = a2, ![rid] = r2],
                         !.trades = Append(st.trades,
                                           make_trade(a2, aid, rid, price, qty))]
    IN notify_order(notify_order(notify_trade(s1, Len(s1.trades), bad),
                                 aid, bad), rid, bad)

\* the pop that leaves the filled order in the identity index
pop_resting_keep_index(st, symbol, bs, price, rid) ==
    [st EXCEPT !.books[symbol][bs] = SetLevel(@, price, Tail(@[price]))]

\* orders_at_price.pop(0); book._orders.pop(resting.id, None)
pop_resting(st, symbol, bs, price, rid) ==
    [st EXCEPT !.books[symbol] =
        [@ EXCEPT ![bs] = SetLevel(@, price, Tail(@[price])),
                  !.index = @ \ {rid}]]

\* the inner loop of _match_buy / _match_sell over one level
RECURSIVE match_level(_, _, _, _, _)
match_level(st, id, bs, price, bad) ==
    LET o == st.orders[id]
        lvl == st.books[o.symbol][bs][price]
    IN IF st.raised \/ ~(remaining(o) > 0 /\ lvl # <<>>) THEN st
       ELSE LET rid == Head(lvl)
                s1 == execute_trade(st, id, rid, price, bad)
                s2 == IF ~s1.raised /\ remaining(s1.orders[rid]) = 0
                      THEN pop_resting(s1, o.symbol, bs, price, rid)
                      ELSE s1
            IN match_level(s2, id, bs, price, bad)

\* if not orders_at_price: del asks[best_price]
drop_empty_level(st, symbol, bs, price) ==
    IF st.books[symbol][bs][price] = <<>>
    THEN [st EXCEPT !.books[symbol][bs] = DelLevel(@, price)]
    ELSE st

\* the price check that also stops a limit buy at its limit
buy_stops_at_limit(o, best_price) ==
    o.order_type = "LIMIT" /\ best_price >= o.price

\* the price check of _match_buy: a limit buy stops above its limit
buy_stops(o, best_price) == o.order_type = "LIMIT" /\ best_price > o.price

\* the price check left out of _match_sell
sell_never_stops(o, best_price) == FALSE

\* the price check of _match_sell: a limit sell stops below its limit
sell_stops(o, best_price) == o.order_type = "LIMIT" /\ best_price < o.price

\* MatchingEngine._match_buy
RECURSIVE match_buy(_, _, _)
match_buy(st, id, bad) ==
    LET o == st.orders[id]
        b == st.books[o.symbol]
    IN IF st.raised \/ ~(remaining(o) > 0 /\ DOMAIN b.asks # {}) THEN st
       ELSE LET best_price == peek_price(b, "asks")
            IN IF buy_stops(o, best_price) THEN st
               ELSE LET s1 == match_level(st, id, "asks", best_price, bad)
                    IN IF s1.raised THEN s1
                       ELSE match_buy(drop_empty_level(s1, o.symbol, "asks",
                                                       best_price), id, bad)

\* MatchingEngine._match_sell
RECURSIVE match_sell(_, _, _)
match_sell(st, id, bad) ==
    LET o == st.orders[id]
        b == st.books[o.symbol]
    IN IF st.raised \/ ~(remaining(o) > 0 /\ DOMAIN b.bids # {}) THEN st
       ELSE LET best_price == peek_price(b, "bids")
            IN IF sell_stops(o, best_price) THEN st
               ELSE LET s1 == match_level(st, id, "bids", best_price, bad)
                    IN IF s1.raised THEN s1
                       ELSE match_sell(drop_empty_level(s1, o.symbol, "bids",
                                                        best_price), id, bad)

\* the remainder put into the book only if the order did not trade
rests_only_if_untouched(o) ==
    remaining(o) > 0 /\ o.order_type = "LIMIT" /\ o.filled = 0

\* the remainder put into the book whatever the order's type
rests_any_type(o) == remaining(o) > 0

\* whether process_order puts what is left of the order into the book
rests_after_match(o) == remaining(o) > 0 /\ o.order_type = "LIMIT"

\* MatchingEngine.process_order
process_order(st, id, bad) ==
    LET o == st.orders[id]
        s0 == get_or_create_book(st, o.symbol)
        s1 == IF o.side = "BUY" THEN match_buy(s0, id, bad)
              ELSE match_sell(s0, id, bad)
    IN IF s1.raised THEN s1
       ELSE IF rests_after_match(s1.orders[id])
            THEN notify_order(add_order(s1, id), id, bad)
            ELSE s1

\* the cancel that empties the level of the order
cancel_level_all(lvl, id) == <<>>

\* the level list cancel_order leaves at the order's price
cancel_level(lvl, id) == SeqWithout(lvl, id)

\* OrderBook.cancel_order on the book of one symbol; found says whether it
\* returned the order
book_cancel_order(st, symbol, id) ==
    LET b == st.books[symbol] IN
    IF id \notin b.index THEN [st |-> st, found |-> FALSE]
    ELSE LET o == st.orders[id]
             bs == BookSide(o.side)
             b1 == [b EXCEPT !.index = @ \ {id}]
             b2 == IF o.price \in DOMAIN b1[bs]
                   THEN LET l == cancel_level(b1[bs][o.price], id)
                        IN [b1 EXCEPT ![bs] = IF l = <<>> THEN DelLevel(@, o.price)
                                               ELSE SetLevel(@, o.price, l)]
                   ELSE b1
         IN [st |-> [st EXCEPT !.books[symbol] = b2,
                               !.orders[id].status = "CANCELLED"],
             found |-> TRUE]

\* cancel_order of app_original.py: the first book that returns the order
cancel_order(st, id) ==
    LET hits == {s \in DOMAIN st.books : id \in st.books[s].index} IN
    IF hits = {} THEN [st |-> st, found |-> FALSE]
    ELSE book_cancel_order(st, CHOOSE s \in hits : TRUE, id)

\* trades[-limit:] of Python: a start of -limit counted from the end when it is
\* negative, from the front (so the whole list) when limit is 0
py_tail(seq, limit) ==
    LET n == Len(seq)
        start == IF -limit < 0 THEN (IF n - limit < 0 THEN 0 ELSE n - limit)
                 ELSE MinOf(-limit, n)
    IN SubSeq(seq, start + 1, n)

\* MatchingEngine.get_recent_trades; symbol "" stands for no symbol given
get_recent_trades(tape, symbol, limit) ==
    LET sel == IF symbol # "" THEN SelectSeq(tape, LAMBDA t : t.symbol = symbol)
               ELSE tape
    IN py_tail(sel, limit)

\* the keys of one side in the order a SortedDict yields them: bids by
\* descending price (their key is the negated price), asks by ascending price
RECURSIVE sorted_keys(_, _)
sorted_keys(S, bs) ==
    IF S = {} THEN <<>>
    ELSE LET p == IF bs = "bids" THEN Max(S) ELSE Min(S)
         IN <<p>> \o sorted_keys(S \ {p}, bs)

\* the level total that adds up the ordered quantities
depth_quantity_ordered(st, lvl) ==
    SumSet(1..Len(lvl), [k \in 1..Len(lvl) |-> st.orders[lvl[k]].quantity])

\* sum(o.remaining for o in orders)
depth_quantity(st, lvl) ==
    SumSet(1..Len(lvl), [k \in 1..Len(lvl) |-> remaining(st.orders[lvl[k]])])

\* one loop of get_depth: the entries of the levels met before i >= levels
depth_side(st, m, bs, levels) ==
    LET keys == sorted_keys(DOMAIN m, bs)
        n == Cardinality({i \in 1..Len(keys) : i - 1 < levels})
    IN [i \in 1..n |-> [price |-> keys[i],
                        quantity |-> depth_quantity(st, m[keys[i]]),
                        count |-> Len(m[keys[i]])]]

\* OrderBook.get_depth
get_depth(st, symbol, levels) ==
    [symbol |-> symbol,
     bids |-> depth_side(st, st.books[symbol].bids, "bids", levels),
     asks |-> depth_side(st, st.books[symbol].asks, "asks", levels)]

\* ------------------------------------------- the exchange (exchange.py)
\* Money is in MNT and sizes are in whole contracts; the quotes and the margin
\* rates are chosen so that size * price * margin_rate is a whole number.

\* PRODUCT_MAP, for the two products of the model; margin_pct is margin_rate
\* in hundredths
PRODUCT_MAP ==
    [s \in ExSymbols |->
        IF s = "XAU-MNT"
        THEN [contract_size |-> 1, max_order |-> 100, margin_pct |-> 5]
        ELSE [contract_size |-> 100000, max_order |-> 100, margin_pct |-> 2]]

\* HedgingEngine.HEDGE_THRESHOLD, in hundredths
HEDGE_THRESHOLD_PCT == 5

Abs(x) == IF x < 0 THEN -x ELSE x

\* sum(p.size for p in positions if p.side == side)
RECURSIVE sum_size(_, _)
sum_size(plist, side) ==
    IF plist = <<>> THEN 0
    ELSE (IF Head(plist).side = side THEN Head(plist).size ELSE 0)
         + sum_size(Tail(plist), side)

\* the net exposure that adds the two sides
net_exposure_gross(net_long, net_short) == net_long + net_short

\* exp.net_exposure = net_long - net_short
net_exposure_of(net_long, net_short) == net_long - net_short

\* ExchangeExposure(symbol=symbol)
ExchangeExposure(symbol) ==
    [symbol |-> symbol, net_long |-> 0, net_short |-> 0, net_exposure |-> 0,
     hedge_position |-> 0, hedge_needed |-> 0]

\* with self._lock: ... of _execute_hedge, after the venue has returned a
\* trade id; the lock is not reentrant, so the thread waits for ever (hung)
\* if the lock is held
hedge_commit(ex, symbol, amount) ==
    IF ex.hlock = "held" THEN [ex EXCEPT !.hung = TRUE]
    ELSE [ex EXCEPT !.exposures[symbol] =
            [@ EXCEPT !.hedge_position = @ + amount,
                      !.hedge_needed = ex.exposures[symbol].net_exposure
                                        - (ex.exposures[symbol].hedge_position
                                           + amount)]]

\* the test that takes every answer of the venue for a trade id
trade_id_any(outcome) == TRUE

\* if trade_id: the venue has returned a trade id and not None
trade_id_truthy(outcome) == outcome = "id"

\* HedgingEngine._execute_hedge; outcome is what the venue does with the
\* call: it returns a trade id ("id"), returns None ("none") or raises
execute_hedge(ex, symbol, amount, client, outcome) ==
    IF client = "none" THEN ex
    ELSE LET product == PRODUCT_MAP[symbol]
             side == IF amount > 0 THEN "buy" ELSE "sell"
             lots == (Abs(amount) * product.contract_size) \div 1000
         IN IF lots < 1 THEN ex
            ELSE LET e1 == [ex EXCEPT !.venueCalls =
                              Append(@, [symbol |-> symbol, side |-> side,
                                         lots |-> lots, outcome |-> outcome])]
                 IN IF outcome # "raise" /\ trade_id_truthy(outcome)
                    THEN hedge_commit(e1, symbol, amount)
                    ELSE e1

\* the threshold test that also passes a delta equal to the threshold
reaches_threshold(needed, product) ==
    Abs(needed) * 100 >= product.max_order * HEDGE_THRESHOLD_PCT

\* abs(exp.hedge_needed) > product.max_order * HEDGE_THRESHOLD
exceeds_threshold(needed, product) ==
    Abs(needed) * 100 > product.max_order * HEDGE_THRESHOLD_PCT

\* HedgingEngine._check_hedge
check_hedge(ex, symbol, client, outcome) ==
    IF symbol \notin DOMAIN PRODUCT_MAP THEN ex
    ELSE LET needed == ex.exposures[symbol].hedge_needed
         IN IF exceeds_threshold(needed, PRODUCT_MAP[symbol])
            THEN execute_hedge(ex, symbol, needed, client, outcome)
            ELSE ex

\* HedgingEngine.update_exposure: the whole body runs with self._lock held
update_exposure(ex, symbol, plist, client, outcome) ==
    IF ex.hlock = "held" THEN [ex EXCEPT !.hung = TRUE]
    ELSE LET net_long == sum_size(plist, "long")
             net_short == sum_size(plist, "short")
             old == IF symbol \in DOMAIN ex.exposures THEN ex.exposures[symbol]
                    ELSE ExchangeExposure(symbol)
             exp == [old EXCEPT !.net_long = net_long,
                                !.net_short = net_short,
                                !.net_exposure =
                                    net_exposure_of(net_long, net_short),
                                !.hedge_needed =
                                    net_exposure_of(net_long, net_short)
                                    - old.hedge_position]
             e1 == [ex EXCEPT !.hlock = "held",
                              !.exposures = [q \in DOMAIN @ \cup {symbol} |->
                                                IF q = symbol THEN exp ELSE @[q]]]
             e2 == check_hedge(e1, symbol, client, outcome)
         IN IF e2.hung THEN e2 ELSE [e2 EXCEPT !.hlock = "free"]

\* the entry price that is the bid for both sides
entry_price_bid(quote, side) == quote.bid

\* entry_price = quote['ask'] if side == 'long' else quote['bid']
entry_price(quote, side) == IF side = "long" THEN quote.ask ELSE quote.bid

\* notional = size * entry_price; margin_required = notional * margin_rate
margin_required(size, price, product) ==
    (size * price * product.margin_pct) \div 100

\* the margin check that lets every order through
margin_check_never_fails(balance, margin) == FALSE

\* if balance < margin_required
margin_check_fails(balance, margin) == balance < margin

\* what a call that returns None returns
NoVal == [none |-> TRUE]

\* Exchange.open_position; ret is "none" (None returned), "pos" (the Position
\* returned) or "hung" (the call never returns)
open_position(ex, qs, user_id, symbol, side, size, client, outcome) ==
    IF symbol \notin DOMAIN PRODUCT_MAP \/ symbol \notin DOMAIN qs
    THEN [ex |-> ex, ret |-> "none", val |-> NoVal]
    ELSE LET product == PRODUCT_MAP[symbol]
             price == entry_price(qs[symbol], side)
             margin == margin_required(size, price, product)
             balance == ex.balances[user_id]
         IN IF margin_check_fails(balance, margin)
            THEN [ex |-> ex, ret |-> "none", val |-> NoVal]
            ELSE LET pos == [user_id |-> user_id, symbol |-> symbol,
                             side |-> side, size |-> size,
                             entry_price |-> price, margin_used |-> margin]
                     e1 == [ex EXCEPT
                              !.balances[user_id] = balance - margin,
                              !.positions[user_id] = Append(@, pos),
                              !.all_positions[symbol] = Append(@, pos)]
                     e2 == update_exposure(e1, symbol, e1.all_positions[symbol],
                                           client, outcome)
                 IN [ex |-> e2, ret |-> IF e2.hung THEN "hung" ELSE "pos",
                     val |-> pos]

\* the pnl computed as for a long position whatever the side
close_pnl_long_only(pos, close_price) ==
    (close_price - pos.entry_price) * pos.size

\* pnl of close_position
close_pnl(pos, close_price) ==
    IF pos.side = "long" THEN (close_price - pos.entry_price) * pos.size
    ELSE (pos.entry_price - close_price) * pos.size

\* close_price = quote['bid'] if pos.side == 'long' else quote['ask']
close_price_of(quote, pos) == IF pos.side = "long" THEN quote.bid ELSE quote.ask

\* the search that takes the owner's first position whatever its symbol
find_position_any(user_positions, symbol) == user_positions

\* the positions next(...) of close_position searches: those of the symbol
find_position(user_positions, symbol) ==
    SelectSeq(user_positions, LAMBDA p : p.symbol = symbol)

\* Exchange.close_position; ret is "none", "result" or "hung"
close_position(ex, qs, user_id, symbol, client, outcome) ==
    IF symbol \notin DOMAIN qs THEN [ex |-> ex, ret |-> "none", val |-> NoVal]
    ELSE LET user_positions == ex.positions[user_id]
             found == find_position(user_positions, symbol)
         IN IF found = <<>> THEN [ex |-> ex, ret |-> "none", val |-> NoVal]
            ELSE LET pos == Head(found)
                     close_price == close_price_of(qs[symbol], pos)
                     pnl == close_pnl(pos, close_price)
                     e1 == [ex EXCEPT
                              !.balances[user_id] = @ + pos.margin_used + pnl,
                              !.positions[user_id] =
                                  SelectSeq(user_positions,
                                            LAMBDA p : p.symbol # symbol),
                              !.all_positions[symbol] =
                                  SelectSeq(@, LAMBDA p : p.user_id # user_id)]
                     e2 == update_exposure(e1, symbol, e1.all_positions[symbol],
                                           client, outcome)
                 IN [ex |-> e2, ret |-> IF e2.hung THEN "hung" ELSE "result",
                     val |-> [symbol |-> symbol, side |-> pos.side,
                              size |-> pos.size,
                              entry_price |-> pos.entry_price,
                              close_price |-> close_price, pnl |-> pnl,
                              new_balance |-> e2.balances[user_id]]]

\* ------------------------------------- the index service (index_service.py)
\* Prices are integers in thousandths. Time is in half minutes. A rate is an
\* exact fraction n/d of BASE_INTEREST_RATE = 0.0001 / 8 = 1/80000, so that
\* the rate 1.0 is RATE_UNITS and the cap 0.01 is 800.
PRICE_SCALE == 1000
RATE_UNITS == 80000
EMA_ALPHA == 1              \* 0.1, in parts of EMA_SCALE
EMA_SCALE == 10
FUNDING_INTERVAL == 960     \* 8 * 3600 seconds
MAX_FUNDING_RATE == 800     \* 0.01
BASE_INTEREST_RATE == 1     \* 0.0001 / 8
LOOP_SLEEP == 2             \* time.sleep(60)

MaxOf(a, b) == IF a >= b THEN a ELSE b

ema_unsmoothed(mid, mark_price) == mid

\* mark = EMA_ALPHA * quote.mid + (1 - EMA_ALPHA) * current.mark_price
ema(mid, mark_price) ==
    (EMA_ALPHA * mid + (EMA_SCALE - EMA_ALPHA) * mark_price) \div EMA_SCALE

\* _on_price_update under the lock: the IndexPrice stored for the symbol
on_price_update(pr, symbol, mid) ==
    LET mark == IF symbol \notin DOMAIN pr THEN mid
                ELSE ema(mid, pr[symbol].mark_price)
        new_price == [index_price |-> mid, mark_price |-> mark]
    IN [s \in DOMAIN pr \cup {symbol} |->
           IF s = symbol THEN new_price ELSE pr[s]]

\* _init_funding: rate 0.0, the payment due at the next whole interval
init_funding(t) ==
    [rate |-> [n |-> 0, d |-> 1],
     payment_due |-> (t \div FUNDING_INTERVAL + 1) * FUNDING_INTERVAL]

\* premium = (price.mark_price - price.index_price) / price.index_price
premium_of(price) ==
    [n |-> (price.mark_price - price.index_price)
           * (RATE_UNITS \div PRICE_SCALE),
     d |-> price.index_price \div PRICE_SCALE]

clamp_above_only(premium) ==
    [premium EXCEPT !.n = MinOf(MAX_FUNDING_RATE * premium.d, premium.n)]

\* premium = max(-MAX_FUNDING_RATE, min(MAX_FUNDING_RATE, premium))
clamp(premium) ==
    [premium EXCEPT !.n = MaxOf(-MAX_FUNDING_RATE * premium.d,
                                MinOf(MAX_FUNDING_RATE * premium.d, premium.n))]

\* _update_funding_rate: the funding rates after the update of one symbol
update_funding_rate(fr, pr, symbol) ==
    IF symbol \notin DOMAIN pr \/ pr[symbol].index_price = 0
    THEN fr
    ELSE LET premium == clamp(premium_of(pr[symbol]))
             rate == [premium EXCEPT !.n = @ + BASE_INTEREST_RATE * premium.d]
         IN [fr EXCEPT ![symbol].rate = rate]

\* IndexPriceService(): no price, no funding rate, not running; the clock
IndexInit(times) ==
    /\ prices = [s \in {} |-> 0]
    /\ funding_rates = [s \in {} |-> 0]
    /\ running = FALSE
    /\ now \in times
    /\ settlements = {}
    /\ nquotes = 0

\* ------------------------------------------------------ the state machine
EngineState == [books |-> books, orders |-> orders, trades |-> trades,
                tradeSeen |-> tradeSeen, orderSeen |-> orderSeen,
                raised |-> FALSE]

\* the locals of a request thread that is not in a call
NoLocals == [id |-> 0, bs |-> "asks", best_price |-> 0, live |-> FALSE,
             items |-> <<>>, rid |-> 0, qty |-> 0]

\* engine = MatchingEngine(); engine.get_or_create_book("BTC-PERP")
EngineInit ==
    /\ books = [s \in {"BTC-PERP"} |-> OrderBook]
    /\ orders = <<>>
    /\ trades = <<>>
    /\ tradeSeen = [i \in 1..NObs |-> <<>>]
    /\ orderSeen = [i \in 1..NObs |-> <<>>]
    /\ last = [op |-> "none", id |-> 0, raised |-> FALSE, ntrades |-> 0,
               found |-> FALSE, bad |-> NoBad]
    /\ pc = [t \in Threads |-> "idle"]
    /\ loc = [t \in Threads |-> NoLocals]

\* Exchange(fxcm_client): no balance, no position, no exposure, no quote yet
ExchangeInit(client) ==
    /\ balances = [u \in Users |-> 0]
    /\ positions = [u \in Users |-> <<>>]
    /\ all_positions = [s \in ExSymbols |-> <<>>]
    /\ exposures = [s \in {} |-> 0]
    /\ quotes = [s \in {} |-> 0]
    /\ venueCalls = <<>>
    /\ hlock = "free"
    /\ xlock = "free"
    /\ fxcm = client
    /\ ops = 0

\* the engine of app_original.py, and the Exchange() of get_exchange
Init == EngineInit /\ ExchangeInit("none") /\ IndexInit({0})

Install(st) ==
    /\ books' = st.books
    /\ orders' = st.orders
    /\ trades' = st.trades
    /\ tradeSeen' = st.tradeSeen
    /\ orderSeen' = st.orderSeen

\* place_order: create_order, then engine.process_order
Submit(symbol, side, order_type, price, quantity, bad) ==
    /\ Len(orders) < MaxOrders
    /\ LET id == Len(orders) + 1
           o == create_order(symbol, side, order_type, price, quantity)
           st == process_order([EngineState EXCEPT !.orders = Append(orders, o)],
                               id, bad)
       IN /\ Install(st)
          /\ last' = [op |-> "process", id |-> id, raised |-> st.raised,
                      ntrades |-> IF st.raised THEN 0
                                  ELSE Len(st.trades) - Len(trades),
                      found |-> FALSE, bad |-> bad]
          /\ UNCHANGED <<pc, loc, exVars, idxVars>>

PlaceOrder ==
    \E symbol \in MainSymbols, side \in Sides, order_type \in OrderTypes,
       price \in Prices, quantity \in Qtys :
        /\ order_type = "MARKET" => price = 0
        /\ Submit(symbol, side, order_type, price, quantity, NoBad)

\* DELETE /api/order/<order_id>
CancelOrder ==
    \E id \in 0..MaxOrders :
        LET r == cancel_order(EngineState, id)
        IN /\ Install(r.st)
           /\ last' = [op |-> "cancel", id |-> id, raised |-> FALSE,
                       ntrades |-> 0, found |-> r.found, bad |-> NoBad]
           /\ UNCHANGED <<pc, loc, exVars, idxVars>>

Next == PlaceOrder \/ CancelOrder

Spec == Init /\ [][Next]_vars

\* ------------------------------------------------ orders of two symbols
\* place_order with a valid order of either symbol
PlaceOrderSym ==
    \E symbol \in Symbols, side \in Sides, order_type \in OrderTypes,
       price \in ValidPrices, quantity \in 1..MaxQty :
        Submit(symbol, side, order_type,
               IF order_type = "MARKET" THEN 0 ELSE price, quantity, NoBad)

SymNext == PlaceOrderSym \/ CancelOrder

SymSpec == Init /\ [][SymNext]_vars

\* ------------------------------------------- observers that may raise
\* place_order with an observer that raises when it is called
PlaceOrderObs ==
    \E side \in Sides, order_type \in OrderTypes, price \in ValidPrices,
       quantity \in 1..MaxQty, bad \in BadObservers :
        /\ Len(orders) < MaxObsOrders
        /\ Submit("BTC-PERP", side, order_type,
                  IF order_type = "MARKET" THEN 0 ELSE price, quantity, bad)

ObsNext == PlaceOrderObs \/ CancelOrder

ObsSpec == Init /\ [][ObsNext]_vars

\* ------------------------------------- concurrent request threads
\* The Flask server runs each request in a thread of its own and the engine
\* takes no lock: the statements of process_order and cancel_order of two
\* requests interleave.  A step is one statement (or one if-statement with
\* its body); a raise ends the request (place_order answers 400).  As in the
\* repository, no observer is registered.  Thread 1 serves place_order
\* requests, thread 2 place_order and cancel requests.
CSym == "BTC-PERP"

\* orders_at_price of thread t: the list object it took from the dict, which
\* is the dict's list while the key still holds that object (live), or a list
\* the dict no longer holds (items)
Lst(t) == IF loc[t].live THEN books[CSym][loc[t].bs][loc[t].best_price]
          ELSE loc[t].items

\* the locals of every thread after thread t unbinds or rebinds the list
\* object at (bs, price), whose content was old; mine are t's own new locals
Detach(t, mine, bs, price, old) ==
    [u \in Threads |->
        IF u = t THEN mine
        ELSE IF loc[u].live /\ loc[u].bs = bs /\ loc[u].best_price = price
             THEN [loc[u] EXCEPT !.live = FALSE, !.items = old]
             ELSE loc[u]]

Goto(t, label) == pc' = [pc EXCEPT ![t] = label]
\* the request of thread t ends, by a return or by a raise
Return(t) == /\ pc' = [pc EXCEPT ![t] = "idle"]
             /\ loc' = [loc EXCEPT ![t] = NoLocals]

\* place_order: create_order, process_order line 195
t_start(t) ==
    /\ pc[t] = "idle"
    /\ Len(orders) < MaxOrders
    /\ \E side \in Sides, order_type \in OrderTypes, price \in ValidPrices,
          quantity \in 1..MaxConcQty :
         /\ order_type = "MARKET" => price = Min(ValidPrices)
         /\ orders' = Append(orders, create_order(CSym, side, order_type,
                         IF order_type = "MARKET" THEN 0 ELSE price, quantity))
         /\ loc' = [loc EXCEPT ![t] = [NoLocals EXCEPT
                         !.id = Len(orders) + 1,
                         !.bs = IF side = "BUY" THEN "asks" ELSE "bids"]]
    /\ Goto(t, "outer")
    /\ UNCHANGED <<books, trades, tradeSeen, orderSeen, last, exVars, idxVars>>

\* while order.remaining > 0 and asks:
t_outer(t) ==
    /\ pc[t] = "outer"
    /\ IF remaining(orders[loc[t].id]) > 0
          /\ DOMAIN books[CSym][loc[t].bs] # {}
       THEN Goto(t, "peek") ELSE Goto(t, "rest")
    /\ UNCHANGED <<books, orders, trades, tradeSeen, orderSeen, last, loc,
                   exVars, idxVars>>

\* best_price, orders_at_price = asks.peekitem(0), and the price check
t_peek(t) ==
    /\ pc[t] = "peek"
    /\ LET b == books[CSym]
           o == orders[loc[t].id]
       IN IF DOMAIN b[loc[t].bs] = {} THEN Return(t)
          ELSE LET best_price == peek_price(b, loc[t].bs)
                   stops == IF o.side = "BUY" THEN buy_stops(o, best_price)
                            ELSE sell_stops(o, best_price)
               IN /\ loc' = [loc EXCEPT ![t].best_price = best_price,
                                        ![t].live = ~stops]
                  /\ IF stops THEN Goto(t, "rest") ELSE Goto(t, "inner")
    /\ UNCHANGED <<books, orders, trades, tradeSeen, orderSeen, last,
                   exVars, idxVars>>

\* while order.remaining > 0 and orders_at_price:
t_inner(t) ==
    /\ pc[t] = "inner"
    /\ IF remaining(orders[loc[t].id]) > 0 /\ Lst(t) # <<>>
       THEN Goto(t, "pick") ELSE Goto(t, "level_end")
    /\ UNCHANGED <<books, orders, trades, tradeSeen, orderSeen, last, loc,
                   exVars, idxVars>>

\* resting = orders_at_price[0]
t_pick(t) ==
    /\ pc[t] = "pick"
    /\ IF Lst(t) = <<>> THEN Return(t)
       ELSE /\ loc' = [loc EXCEPT ![t].rid = Head(Lst(t))]
            /\ Goto(t, "qty")
    /\ UNCHANGED <<books, orders, trades, tradeSeen, orderSeen, last,
                   exVars, idxVars>>

\* qty = min(aggressor.remaining, resting.remaining)
t_qty(t) ==
    /\ pc[t] = "qty"
    /\ loc' = [loc EXCEPT ![t].qty =
                   trade_qty(orders[loc[t].id], orders[loc[t].rid])]
    /\ Goto(t, "fill_aggressor")
    /\ UNCHANGED <<books, orders, trades, tradeSeen, orderSeen, last,
                   exVars, idxVars>>

\* aggressor.filled += qty
t_fill_aggressor(t) ==
    /\ pc[t] = "fill_aggressor"
    /\ orders' = [orders EXCEPT ![loc[t].id].filled = @ + loc[t].qty]
    /\ Goto(t, "fill_resting")
    /\ UNCHANGED <<books, trades, tradeSeen, orderSeen, last, loc,
                   exVars, idxVars>>

\* resting.filled += qty
t_fill_resting(t) ==
    /\ pc[t] = "fill_resting"
    /\ orders' = [orders EXCEPT ![loc[t].rid].filled = @ + loc[t].qty]
    /\ Goto(t, "status")
    /\ UNCHANGED <<books, trades, tradeSeen, orderSeen, last, loc,
                   exVars, idxVars>>

\* aggressor.status = ...; resting.status = ...
t_status(t) ==
    /\ pc[t] = "status"
    /\ orders' = [orders EXCEPT
                    ![loc[t].id].status = fill_status(orders[loc[t].id]),
                    ![loc[t].rid].status = fill_status(orders[loc[t].rid])]
    /\ Goto(t, "trade")
    /\ UNCHANGED <<books, trades, tradeSeen, orderSeen, last, loc,
                   exVars, idxVars>>

\* trade = Trade(...); self._trades.append(trade); no observer is registered
t_trade(t) ==
    /\ pc[t] = "trade"
    /\ trades' = Append(trades,
                      make_trade(orders[loc[t].id], loc[t].id, loc[t].rid,
                                 loc[t].best_price, loc[t].qty))
    /\ Goto(t, "pop")
    /\ UNCHANGED <<books, orders, tradeSeen, orderSeen, last, loc,
                   exVars, idxVars>>

\* if resting.remaining == 0: orders_at_price.pop(0); book._orders.pop(...)
t_pop(t) ==
    /\ pc[t] = "pop"
    /\ IF remaining(orders[loc[t].rid]) # 0
       THEN Goto(t, "inner") /\ UNCHANGED <<books, loc>>
       ELSE IF Lst(t) = <<>> THEN Return(t) /\ UNCHANGED books
       ELSE /\ Goto(t, "inner")
            /\ IF loc[t].live
               THEN /\ books' = [books EXCEPT ![CSym] = [@ EXCEPT
                           ![loc[t].bs] = SetLevel(@, loc[t].best_price,
                                                   Tail(Lst(t))),
                           !.index = @ \ {loc[t].rid}]]
                    /\ UNCHANGED loc
               ELSE /\ books' = [books EXCEPT ![CSym].index = @ \ {loc[t].rid}]
                    /\ loc' = [loc EXCEPT ![t].items = Tail(Lst(t))]
    /\ UNCHANGED <<orders, trades, tradeSeen, orderSeen, last, exVars, idxVars>>

\* if not orders_at_price: del asks[best_price]
t_level_end(t) ==
    /\ pc[t] = "level_end"
    /\ LET side_map == books[CSym][loc[t].bs]
           p == loc[t].best_price
       IN IF Lst(t) # <<>>
          THEN /\ Goto(t, "outer")
               /\ loc' = [loc EXCEPT ![t].live = FALSE, ![t].items = <<>>]
               /\ UNCHANGED books
          ELSE IF p \notin DOMAIN side_map THEN Return(t) /\ UNCHANGED books
          ELSE /\ Goto(t, "outer")
               /\ books' = [books EXCEPT ![CSym][loc[t].bs] = DelLevel(@, p)]
               /\ loc' = Detach(t, [loc[t] EXCEPT !.live = FALSE,
                                                  !.items = <<>>],
                                loc[t].bs, p, side_map[p])
    /\ UNCHANGED <<orders, trades, tradeSeen, orderSeen, last, exVars, idxVars>>

\* if order.remaining > 0 and LIMIT: book.add_order(order)
t_rest(t) ==
    /\ pc[t] = "rest"
    /\ books' = IF rests_after_match(orders[loc[t].id])
                THEN add_order(EngineState, loc[t].id).books
                ELSE books
    /\ Return(t)
    /\ UNCHANGED <<orders, trades, tradeSeen, orderSeen, last, exVars, idxVars>>

\* DELETE /api/order/<id>: order = self._orders.pop(order_id, None)
c_start(t) ==
    /\ pc[t] = "idle"
    /\ t = 2
    /\ \E id \in 1..MaxOrders :
         IF id \in books[CSym].index
         THEN /\ books' = [books EXCEPT ![CSym].index = @ \ {id}]
              /\ loc' = [loc EXCEPT ![t] = [NoLocals EXCEPT !.id = id,
                             !.bs = BookSide(orders[id].side),
                             !.best_price = orders[id].price]]
              /\ Goto(t, "c_level")
         ELSE UNCHANGED <<books, loc, pc>>
    /\ UNCHANGED <<orders, trades, tradeSeen, orderSeen, last, exVars, idxVars>>

\* if order.price in book: book[order.price] = [o for o in ... if o.id != id]
c_level(t) ==
    /\ pc[t] = "c_level"
    /\ LET side_map == books[CSym][loc[t].bs]
           p == loc[t].best_price
       IN IF p \in DOMAIN side_map
          THEN /\ books' = [books EXCEPT ![CSym][loc[t].bs] =
                               SetLevel(@, p, cancel_level(side_map[p], loc[t].id))]
               /\ loc' = Detach(t, loc[t], loc[t].bs, p, side_map[p])
               /\ Goto(t, "c_del")
          ELSE /\ Goto(t, "c_status")
               /\ UNCHANGED <<books, loc>>
    /\ UNCHANGED <<orders, trades, tradeSeen, orderSeen, last, exVars, idxVars>>

\* if not book[order.price]: del book[order.price]
c_del(t) ==
    /\ pc[t] = "c_del"
    /\ LET side_map == books[CSym][loc[t].bs]
           p == loc[t].best_price
       IN IF p \notin DOMAIN side_map THEN Return(t) /\ UNCHANGED books
          ELSE IF side_map[p] # <<>>
          THEN Goto(t, "c_status") /\ UNCHANGED <<books, loc>>
          ELSE /\ books' = [books EXCEPT ![CSym][loc[t].bs] = DelLevel(@, p)]
               /\ loc' = Detach(t, loc[t], loc[t].bs, p, side_map[p])
               /\ Goto(t, "c_status")
    /\ UNCHANGED <<orders, trades, tradeSeen, orderSeen, last, exVars, idxVars>>

\* order.status = OrderStatus.CANCELLED
c_status(t) ==
    /\ pc[t] = "c_status"
    /\ orders' = [orders EXCEPT ![loc[t].id].status = "CANCELLED"]
    /\ Return(t)
    /\ UNCHANGED <<books, trades, tradeSeen, orderSeen, last, exVars, idxVars>>

ConcNext ==
    \E t \in Threads :
        \/ t_start(t) \/ t_outer(t) \/ t_peek(t) \/ t_inner(t) \/ t_pick(t)
        \/ t_qty(t) \/ t_fill_aggressor(t) \/ t_fill_resting(t) \/ t_status(t)
        \/ t_trade(t) \/ t_pop(t) \/ t_level_end(t) \/ t_rest(t)
        \/ c_start(t) \/ c_level(t) \/ c_del(t) \/ c_status(t)

ConcSpec == Init /\ [][ConcNext]_vars

\* ------------------------------------------------- the exchange calls
\* Each call of the Exchange as one step; the market maker thread publishes
\* quotes in between.
ExState == [balances |-> balances, positions |-> positions,
            all_positions |-> all_positions, exposures |-> exposures,
            venueCalls |-> venueCalls, hlock |-> hlock, hung |-> FALSE]

InstallEx(ex) ==
    /\ balances' = ex.balances
    /\ positions' = ex.positions
    /\ all_positions' = ex.all_positions
    /\ exposures' = ex.exposures
    /\ venueCalls' = ex.venueCalls
    /\ hlock' = ex.hlock

\* Exchange(fxcm_client) with or without a venue client
ExInit ==
    /\ EngineInit
    /\ \E client \in Clients : ExchangeInit(client)
    /\ IndexInit({0})

\* one more Exchange call; the engine and the request threads are not involved
CountCall ==
    /\ ops < MaxExOps
    /\ ops' = ops + 1
    /\ UNCHANGED <<engineVars, idxVars, pc, loc, quotes, xlock, fxcm>>

\* Exchange.deposit of one of the given amounts
DepositOf(amounts) ==
    \E user_id \in Users, amount \in amounts :
        /\ CountCall
        /\ balances' = [balances EXCEPT ![user_id] = @ + amount]
        /\ last' = [op |-> "deposit", user_id |-> user_id, symbol |-> "",
                    side |-> "", size |-> amount, ret |-> "ok", val |-> NoVal]
        /\ UNCHANGED <<positions, all_positions, exposures, venueCalls, hlock>>

\* Exchange.withdraw
Withdraw ==
    \E user_id \in Users, amount \in WithdrawAmounts :
        /\ CountCall
        /\ balances' = IF balances[user_id] < amount THEN balances
                       ELSE [balances EXCEPT ![user_id] = @ - amount]
        /\ last' = [op |-> "withdraw", user_id |-> user_id, symbol |-> "",
                    side |-> "", size |-> amount,
                    ret |-> IF balances[user_id] < amount THEN "false"
                            ELSE "true",
                    val |-> NoVal]
        /\ UNCHANGED <<positions, all_positions, exposures, venueCalls, hlock>>

\* Exchange.open_position
OpenPosition ==
    \E user_id \in Users, symbol \in ExSymbols \cup UnknownSymbols,
       side \in ExSides, size \in ExSizes, outcome \in Outcomes :
        LET r == open_position(ExState, quotes, user_id, symbol, side, size,
                               fxcm, outcome)
        IN /\ CountCall
           /\ InstallEx(r.ex)
           /\ last' = [op |-> "open", user_id |-> user_id, symbol |-> symbol,
                       side |-> side, size |-> size, ret |-> r.ret,
                       val |-> r.val]

\* Exchange.close_position
ClosePosition ==
    \E user_id \in Users, symbol \in ExSymbols \cup UnknownSymbols,
       outcome \in Outcomes :
        LET r == close_position(ExState, quotes, user_id, symbol, fxcm, outcome)
        IN /\ CountCall
           /\ InstallEx(r.ex)
           /\ last' = [op |-> "close", user_id |-> user_id, symbol |-> symbol,
                       side |-> "", size |-> 0, ret |-> r.ret, val |-> r.val]

\* MarketMaker._update_loop: self.quotes[product.symbol] = quote
UpdateQuote ==
    \E symbol \in ExSymbols : \E quote \in QuoteSet(symbol) :
        /\ quotes' = [q \in DOMAIN quotes \cup {symbol} |->
                         IF q = symbol THEN quote ELSE quotes[q]]
        /\ UNCHANGED <<engineVars, idxVars, last, pc, loc, balances, positions,
                       all_positions, exposures, venueCalls, hlock, xlock,
                       fxcm, ops>>

\* Exchange.deposit
Deposit == DepositOf(DepositAmounts)

ExNext == Deposit \/ Withdraw \/ OpenPosition \/ ClosePosition \/ UpdateQuote

ExSpec == ExInit /\ [][ExNext]_vars

\* The same calls with no amount or size that is not positive
DepositPositive == DepositOf(PositiveDeposits)

ExPosNext ==
    DepositPositive \/ Withdraw \/ OpenPosition \/ ClosePosition \/ UpdateQuote

ExPosSpec == ExInit /\ [][ExPosNext]_vars

\* ------------------------------------ concurrent Exchange requests
\* Two request threads, each making one open_position or withdraw call,
\* statement by statement. The calls start from an exchange on which every
\* user has deposited once and every symbol has a quote.
ExLocals == [op |-> "", user_id |-> "", symbol |-> "", side |-> "", size |-> 0,
             entry_price |-> 0, amount |-> 0, balance |-> 0, debited |-> FALSE,
             ret |-> ""]

ExConcInit ==
    /\ EngineInit
    /\ IndexInit({0})
    /\ balances = [u \in Users |-> 1000000]
    /\ positions = [u \in Users |-> <<>>]
    /\ all_positions = [s \in ExSymbols |-> <<>>]
    /\ exposures = [s \in {} |-> 0]
    /\ quotes \in [ExSymbols -> UNION {QuoteSet(s) : s \in ExSymbols}]
    /\ \A s \in ExSymbols : quotes[s] \in QuoteSet(s)
    /\ venueCalls = <<>>
    /\ hlock = "free"
    /\ xlock = "free"
    /\ fxcm = "none"
    /\ ops = 0

\* what no step of a request thread of the exchange touches
ExConcFrame == UNCHANGED <<engineVars, idxVars, last, quotes, fxcm, ops>>

\* a lock that never makes a thread wait
can_acquire_always(lock) == TRUE

\* threading.Lock: acquire waits until the lock is free
can_acquire(lock) == lock = "free"

\* open_position up to the lock: product, quote, entry price, margin
x_start(t) ==
    /\ pc[t] = "idle"
    /\ \E user_id \in Users, symbol \in ExSymbols, side \in ExSides,
          size \in ExSizes :
         LET price == entry_price(quotes[symbol], side)
         IN loc' = [loc EXCEPT ![t] = [ExLocals EXCEPT
                !.op = "open", !.user_id = user_id, !.symbol = symbol,
                !.side = side, !.size = size, !.entry_price = price,
                !.amount = margin_required(size, price, PRODUCT_MAP[symbol])]]
    /\ Goto(t, "x_acquire")
    /\ UNCHANGED <<balances, positions, all_positions, exposures, venueCalls,
                   hlock, xlock>>
    /\ ExConcFrame

\* with self._lock:
x_acquire(t) ==
    /\ pc[t] = "x_acquire"
    /\ can_acquire(xlock)
    /\ xlock' = "held"
    /\ Goto(t, "x_check")
    /\ UNCHANGED <<balances, positions, all_positions, exposures, venueCalls,
                   hlock, loc>>
    /\ ExConcFrame

\* balance = self.balances.get(user_id, 0); if balance < margin_required:
\* return None
x_check(t) ==
    /\ pc[t] = "x_check"
    /\ IF margin_check_fails(balances[loc[t].user_id], loc[t].amount)
       THEN /\ loc' = [loc EXCEPT ![t].ret = "none"]
            /\ xlock' = "free"
            /\ Goto(t, "done")
       ELSE /\ loc' = [loc EXCEPT ![t].balance = balances[loc[t].user_id]]
            /\ xlock' = xlock
            /\ Goto(t, "x_debit")
    /\ UNCHANGED <<balances, positions, all_positions, exposures, venueCalls,
                   hlock>>
    /\ ExConcFrame

\* self.balances[user_id] = balance - margin_required
x_debit(t) ==
    /\ pc[t] = "x_debit"
    /\ balances' = [balances EXCEPT ![loc[t].user_id] =
                        loc[t].balance - loc[t].amount]
    /\ loc' = [loc EXCEPT ![t].debited = TRUE]
    /\ Goto(t, "x_track")
    /\ UNCHANGED <<positions, all_positions, exposures, venueCalls, hlock,
                   xlock>>
    /\ ExConcFrame

\* pos = Position(...); the two appends; the end of the with block
x_track(t) ==
    /\ pc[t] = "x_track"
    /\ LET pos == [user_id |-> loc[t].user_id, symbol |-> loc[t].symbol,
                   side |-> loc[t].side, size |-> loc[t].size,
                   entry_price |-> loc[t].entry_price,
                   margin_used |-> loc[t].amount]
       IN /\ positions' = [positions EXCEPT ![loc[t].user_id] = Append(@, pos)]
          /\ all_positions' = [all_positions EXCEPT ![loc[t].symbol] =
                                   Append(@, pos)]
    /\ xlock' = "free"
    /\ Goto(t, "x_exposure")
    /\ UNCHANGED <<balances, exposures, venueCalls, hlock, loc>>
    /\ ExConcFrame

\* self.hedging.update_exposure(symbol, ...); return pos
x_exposure(t) ==
    /\ pc[t] = "x_exposure"
    /\ can_acquire(hlock)
    /\ LET ex == update_exposure(ExState, loc[t].symbol,
                                 all_positions[loc[t].symbol], fxcm, "none")
       IN /\ exposures' = ex.exposures
          /\ venueCalls' = ex.venueCalls
          /\ hlock' = ex.hlock
    /\ loc' = [loc EXCEPT ![t].ret = "pos"]
    /\ Goto(t, "done")
    /\ UNCHANGED <<balances, positions, all_positions, xlock>>
    /\ ExConcFrame

\* withdraw up to the lock
w_start(t) ==
    /\ pc[t] = "idle"
    /\ \E user_id \in Users, amount \in WithdrawAmounts :
         loc' = [loc EXCEPT ![t] = [ExLocals EXCEPT
                    !.op = "withdraw", !.user_id = user_id, !.amount = amount]]
    /\ Goto(t, "w_acquire")
    /\ UNCHANGED <<balances, positions, all_positions, exposures, venueCalls,
                   hlock, xlock>>
    /\ ExConcFrame

\* with self._lock:
w_acquire(t) ==
    /\ pc[t] = "w_acquire"
    /\ can_acquire(xlock)
    /\ xlock' = "held"
    /\ Goto(t, "w_check")
    /\ UNCHANGED <<balances, positions, all_positions, exposures, venueCalls,
                   hlock, loc>>
    /\ ExConcFrame

\* balance = self.balances.get(user_id, 0); if balance < amount: return False
w_check(t) ==
    /\ pc[t] = "w_check"
    /\ IF balances[loc[t].user_id] < loc[t].amount
       THEN /\ loc' = [loc EXCEPT ![t].ret = "false"]
            /\ xlock' = "free"
            /\ Goto(t, "done")
       ELSE /\ loc' = [loc EXCEPT ![t].balance = balances[loc[t].user_id]]
            /\ xlock' = xlock
            /\ Goto(t, "w_debit")
    /\ UNCHANGED <<balances, positions, all_positions, exposures, venueCalls,
                   hlock>>
    /\ ExConcFrame

\* self.balances[user_id] = balance - amount; return True
w_debit(t) ==
    /\ pc[t] = "w_debit"
    /\ balances' = [balances EXCEPT ![loc[t].user_id] =
                        loc[t].balance - loc[t].amount]
    /\ loc' = [loc EXCEPT ![t].debited = TRUE, ![t].ret = "true"]
    /\ xlock' = "free"
    /\ Goto(t, "done")
    /\ UNCHANGED <<positions, all_positions, exposures, venueCalls, hlock>>
    /\ ExConcFrame

ExConcNext ==
    \E t \in Threads :
        \/ x_start(t) \/ x_acquire(t) \/ x_check(t) \/ x_debit(t)
        \/ x_track(t) \/ x_exposure(t)
        \/ w_start(t) \/ w_acquire(t) \/ w_check(t) \/ w_debit(t)

ExConcSpec == ExConcInit /\ [][ExConcNext]_vars

\* ------------------------------- update_exposure, statement by statement
\* Two request threads make open_position and close_position calls on an
\* exchange with a venue client. The part of a call inside Exchange._lock is
\* one step; update_exposure and the hedge that follow it are taken statement
\* by statement, the venue call being in flight between h_check and h_venue.
\* The calls start from an exchange on which every user has deposited once
\* and every symbol has a quote.
HLocals == [op |-> "", user_id |-> "", symbol |-> "", live |-> FALSE,
            items |-> <<>>, holds |-> FALSE, amount |-> 0, call |-> 0]

HedgeInit ==
    /\ EngineInit
    /\ IndexInit({0})
    /\ balances = [u \in Users |-> 1000000]
    /\ positions = [u \in Users |-> <<>>]
    /\ all_positions = [s \in ExSymbols |-> <<>>]
    /\ exposures = [s \in {} |-> 0]
    /\ quotes = [s \in ExSymbols |-> CHOOSE q \in QuoteSet(s) : q.ask <= 2000000]
    /\ venueCalls = <<>>
    /\ hlock = "free"
    /\ xlock = "free"
    /\ fxcm = "client"
    /\ ops = 0

\* what no step of these threads touches
HedgeFrame == UNCHANGED <<engineVars, idxVars, last, quotes, fxcm, xlock>>

\* the list of positions the thread passed to update_exposure: the list of
\* the symbol as it is now, or the list as it was when a close_position
\* replaced it by a new one
PList(t) == IF loc[t].live THEN all_positions[loc[t].symbol] ELSE loc[t].items

\* a close_position has put a new list in all_positions[symbol]: the threads
\* that hold the old list keep it as it was
DetachLists(l, t, symbol, old) ==
    [u \in Threads |->
        IF u # t /\ l[u].live /\ l[u].symbol = symbol
        THEN [l[u] EXCEPT !.live = FALSE, !.items = old]
        ELSE l[u]]

\* open_position up to the end of its with self._lock block
hx_open(t) ==
    /\ pc[t] = "idle"
    /\ ops < MaxHedgeOps
    /\ ops' = ops + 1
    /\ \E user_id \in Users, symbol \in ExSymbols, side \in ExSides,
          size \in ExSizes :
         LET price == entry_price(quotes[symbol], side)
             margin == margin_required(size, price, PRODUCT_MAP[symbol])
             pos == [user_id |-> user_id, symbol |-> symbol, side |-> side,
                     size |-> size, entry_price |-> price,
                     margin_used |-> margin]
         IN IF margin_check_fails(balances[user_id], margin)
            THEN UNCHANGED <<balances, positions, all_positions, pc, loc>>
            ELSE /\ balances' = [balances EXCEPT ![user_id] = @ - margin]
                 /\ positions' = [positions EXCEPT ![user_id] = Append(@, pos)]
                 /\ all_positions' = [all_positions EXCEPT ![symbol] =
                                          Append(@, pos)]
                 /\ loc' = [loc EXCEPT ![t] = [HLocals EXCEPT
                               !.op = "open", !.user_id = user_id,
                               !.symbol = symbol]]
                 /\ Goto(t, "h_args")
    /\ UNCHANGED <<exposures, venueCalls, hlock>>
    /\ HedgeFrame

\* close_position up to the end of its with self._lock block
hx_close(t) ==
    /\ pc[t] = "idle"
    /\ ops < MaxHedgeOps
    /\ ops' = ops + 1
    /\ \E user_id \in Users, symbol \in ExSymbols :
         LET user_positions == positions[user_id]
             found == find_position(user_positions, symbol)
         IN IF found = <<>>
            THEN UNCHANGED <<balances, positions, all_positions, pc, loc>>
            ELSE LET pos == Head(found)
                     pnl == close_pnl(pos, close_price_of(quotes[symbol], pos))
                 IN /\ balances' = [balances EXCEPT ![user_id] =
                                        @ + pos.margin_used + pnl]
                    /\ positions' = [positions EXCEPT ![user_id] =
                                        SelectSeq(user_positions,
                                                  LAMBDA p : p.symbol # symbol)]
                    /\ all_positions' = [all_positions EXCEPT ![symbol] =
                                            SelectSeq(@, LAMBDA p :
                                                p.user_id # user_id)]
                    /\ loc' = [DetachLists(loc, t, symbol,
                                           all_positions[symbol])
                                 EXCEPT ![t] = [HLocals EXCEPT
                                    !.op = "close", !.user_id = user_id,
                                    !.symbol = symbol]]
                    /\ Goto(t, "h_args")
    /\ UNCHANGED <<exposures, venueCalls, hlock>>
    /\ HedgeFrame

\* the argument self.all_positions.get(symbol, []) of update_exposure
h_args(t) ==
    /\ pc[t] = "h_args"
    /\ loc' = [loc EXCEPT ![t].live = TRUE]
    /\ Goto(t, "h_acquire")
    /\ UNCHANGED <<balances, positions, all_positions, exposures, venueCalls,
                   hlock, ops>>
    /\ HedgeFrame

\* with self._lock: of update_exposure
h_acquire(t) ==
    /\ pc[t] = "h_acquire"
    /\ can_acquire(hlock)
    /\ hlock' = "held"
    /\ loc' = [loc EXCEPT ![t].holds = TRUE]
    /\ Goto(t, "h_compute")
    /\ UNCHANGED <<balances, positions, all_positions, exposures, venueCalls,
                   ops>>
    /\ HedgeFrame

\* net_long, net_short, the fields of exp, self.exposures[symbol] = exp
h_compute(t) ==
    /\ pc[t] = "h_compute"
    /\ LET symbol == loc[t].symbol
           net_long == sum_size(PList(t), "long")
           net_short == sum_size(PList(t), "short")
           old == IF symbol \in DOMAIN exposures THEN exposures[symbol]
                  ELSE ExchangeExposure(symbol)
           exp == [old EXCEPT !.net_long = net_long,
                              !.net_short = net_short,
                              !.net_exposure =
                                  net_exposure_of(net_long, net_short),
                              !.hedge_needed =
                                  net_exposure_of(net_long, net_short)
                                  - old.hedge_position]
       IN exposures' = [q \in DOMAIN exposures \cup {symbol} |->
                           IF q = symbol THEN exp ELSE exposures[q]]
    /\ Goto(t, "h_check")
    /\ UNCHANGED <<balances, positions, all_positions, venueCalls, hlock, loc,
                   ops>>
    /\ HedgeFrame

\* _check_hedge, and _execute_hedge up to self.fxcm.open_position(...)
h_check(t) ==
    /\ pc[t] = "h_check"
    /\ LET symbol == loc[t].symbol
           product == PRODUCT_MAP[symbol]
           needed == exposures[symbol].hedge_needed
           lots == (Abs(needed) * product.contract_size) \div 1000
       IN IF exceeds_threshold(needed, product) /\ fxcm # "none" /\ lots >= 1
          THEN /\ venueCalls' = Append(venueCalls,
                      [symbol |-> symbol,
                       side |-> IF needed > 0 THEN "buy" ELSE "sell",
                       lots |-> lots, outcome |-> "pending"])
               /\ loc' = [loc EXCEPT ![t].amount = needed,
                                     ![t].call = Len(venueCalls) + 1]
               /\ Goto(t, "h_venue")
          ELSE /\ Goto(t, "h_release")
               /\ UNCHANGED <<venueCalls, loc>>
    /\ UNCHANGED <<balances, positions, all_positions, exposures, hlock, ops>>
    /\ HedgeFrame

\* the venue call returns a trade id, returns None or raises; if trade_id:
h_venue(t) ==
    /\ pc[t] = "h_venue"
    /\ \E outcome \in Outcomes :
         /\ venueCalls' = [venueCalls EXCEPT ![loc[t].call].outcome = outcome]
         /\ IF outcome # "raise" /\ trade_id_truthy(outcome)
            THEN Goto(t, "h_commit") ELSE Goto(t, "h_release")
    /\ UNCHANGED <<balances, positions, all_positions, exposures, hlock, loc,
                   ops>>
    /\ HedgeFrame

\* with self._lock: of _execute_hedge, and the commit inside it. The lock is
\* not reentrant: a thread that holds it waits for itself for ever
h_commit(t) ==
    /\ pc[t] = "h_commit"
    /\ can_acquire(hlock) \/ loc[t].holds
    /\ IF can_acquire(hlock)
       THEN /\ exposures' = hedge_commit(
                    [exposures |-> exposures, hlock |-> hlock, hung |-> FALSE],
                    loc[t].symbol, loc[t].amount).exposures
            /\ Goto(t, "h_release")
       ELSE /\ Goto(t, "deadlock")
            /\ UNCHANGED exposures
    /\ UNCHANGED <<balances, positions, all_positions, venueCalls, hlock, loc,
                   ops>>
    /\ HedgeFrame

\* the end of the with block of update_exposure; the call returns
h_release(t) ==
    /\ pc[t] = "h_release"
    /\ hlock' = "free"
    /\ loc' = [loc EXCEPT ![t] = HLocals]
    /\ Goto(t, "idle")
    /\ UNCHANGED <<balances, positions, all_positions, exposures, venueCalls,
                   ops>>
    /\ HedgeFrame

HedgeNext ==
    \E t \in Threads :
        \/ hx_open(t) \/ hx_close(t) \/ h_args(t) \/ h_acquire(t)
        \/ h_compute(t) \/ h_check(t) \/ h_venue(t) \/ h_commit(t)
        \/ h_release(t)

HedgeSpec == HedgeInit /\ [][HedgeNext]_vars

\* the steps of thread t once its call has left Exchange._lock
HedgeRun(t) ==
    \/ h_args(t) \/ h_acquire(t) \/ h_compute(t) \/ h_check(t)
    \/ h_venue(t) \/ h_commit(t) \/ h_release(t)

\* The same steps with the scheduling the program runs under: a thread that
\* can take a step takes one in the end, the venue answers every call, and a
\* thread that waits for the lock gets it if it is free again and again.
HedgeLiveSpec ==
    /\ HedgeSpec
    /\ \A t \in Threads : WF_vars(HedgeRun(t)) /\ SF_vars(h_acquire(t))

\* ------------------------------------------------- the index service runs
\* The service is constructed, started at some time of day, and then handles
\* streamed quotes while its update loop wakes every LOOP_SLEEP or a little
\* later. No callback is registered.
IdxInit == EngineInit /\ ExchangeInit("none") /\ IndexInit(StartTimes)

IdxFrame == UNCHANGED <<engineVars, last, pc, loc, exVars>>

\* start(): returns when the feed does not connect; else _init_funding for
\* every symbol, subscribe, and the update loop thread starts
StartService ==
    /\ ~running
    /\ \E connected \in BOOLEAN :
         IF connected
         THEN /\ funding_rates' = [s \in IdxSymbols |-> init_funding(now)]
              /\ running' = TRUE
         ELSE UNCHANGED <<funding_rates, running>>
    /\ UNCHANGED <<prices, now, settlements, nquotes>>
    /\ IdxFrame

\* _on_price_update(quote)
OnPriceUpdate ==
    /\ running
    /\ nquotes < MaxQuotes
    /\ \E symbol \in IdxSymbols, mid \in Mids :
         prices' = on_price_update(prices, symbol, mid)
    /\ nquotes' = nquotes + 1
    /\ UNCHANGED <<funding_rates, running, now, settlements>>
    /\ IdxFrame

\* one turn of _update_loop: the payments that are due, the next due times,
\* the funding rates; then time.sleep(60)
UpdateLoop ==
    /\ running
    /\ now <= MaxNow
    /\ LET due == {s \in DOMAIN funding_rates :
                      now >= funding_rates[s].payment_due}
           scheduled == [s \in DOMAIN funding_rates |->
                           IF s \in due
                           THEN [funding_rates[s] EXCEPT
                                   !.payment_due = now + FUNDING_INTERVAL]
                           ELSE funding_rates[s]]
       IN /\ settlements' = settlements \cup
                 {[symbol |-> s, due |-> funding_rates[s].payment_due,
                   at |-> now] : s \in due}
          /\ funding_rates' = [s \in DOMAIN funding_rates |->
                                 update_funding_rate(scheduled, prices, s)[s]]
    /\ \E late \in 0..MaxLate : now' = now + LOOP_SLEEP + late
    /\ UNCHANGED <<prices, running, nquotes>>
    /\ IdxFrame

IdxNext == StartService \/ OnPriceUpdate \/ UpdateLoop

IdxSpec == IdxInit /\ [][IdxNext]_vars

\* ------------------------------------------------------------- claims
\* what the claims speak of
Submitted == 1..Len(orders)
NoCancelYet == \A id \in Submitted : orders[id].status # "CANCELLED"

RECURSIVE LevelRemaining(_)
LevelRemaining(lvl) ==
    IF lvl = <<>> THEN 0
    ELSE remaining(orders[Head(lvl)]) + LevelRemaining(Tail(lvl))

SideRemaining(m) == SumSet(DOMAIN m, [p \in DOMAIN m |-> LevelRemaining(m[p])])

\* the sum of the remaining quantities of the orders resting in the books
RestingRemaining ==
    SumSet(DOMAIN books, [s \in DOMAIN books |->
        SideRemaining(books[s].bids) + SideRemaining(books[s].asks)])

FilledSum == SumSet(Submitted, [id \in Submitted |-> orders[id].filled])
SubmittedSum == SumSet(Submitted, [id \in Submitted |-> orders[id].quantity])

\* an order process_order should reject: quantity not > 0, or a limit order
\* with price not > 0
Invalid(o) == o.quantity <= 0 \/ (o.order_type = "LIMIT" /\ o.price <= 0)

\* what process_order dropped: the remainder of an order it left out of the
\* book, a market order or an order with nothing positive left
DroppedIds == {id \in Submitted : orders[id].order_type = "MARKET"
                                  \/ remaining(orders[id]) <= 0}
DroppedSum == SumSet(DroppedIds, [id \in DroppedIds |-> remaining(orders[id])])

\* C1, as first stated (and even for valid orders alone): while no order was
\* cancelled, the remaining quantities of the resting orders plus the filled
\* quantities of all submitted orders add up to the submitted quantities.
C1_ConservationOriginal ==
    (NoCancelYet /\ \A id \in Submitted : ~Invalid(orders[id]))
        => RestingRemaining + FilledSum = SubmittedSum

\* C1, amended: while no order was cancelled, the remaining quantities of the
\* resting orders, plus the filled quantities of all submitted orders, plus
\* the remainders process_order dropped (of market orders and of orders with
\* nothing positive left), add up to the submitted quantities.
C1_Conservation ==
    NoCancelYet => RestingRemaining + FilledSum + DroppedSum = SubmittedSum

\* a limit order was partly filled on arrival and its remainder rests, and a
\* market order lost a remainder
C1_Witness ==
    /\ NoCancelYet
    /\ \E id \in Submitted : /\ orders[id].order_type = "LIMIT"
                             /\ orders[id].status = "PARTIAL"
                             /\ \E s \in DOMAIN books : id \in books[s].index
    /\ \E id \in Submitted : /\ orders[id].order_type = "MARKET"
                             /\ remaining(orders[id]) > 0

\* C2: in every state a call leaves, a book that has a best bid and a best ask
\* has best bid < best ask.
C2_NoCrossedBook ==
    \A s \in DOMAIN books :
        (DOMAIN books[s].bids # {} /\ DOMAIN books[s].asks # {})
            => get_best_bid(books[s]) < get_best_ask(books[s])

\* a process_order call traded and left both sides of the book populated
C2_Witness ==
    /\ last.op = "process" /\ last.ntrades > 0
    /\ \E s \in DOMAIN books :
          DOMAIN books[s].bids # {} /\ DOMAIN books[s].asks # {}

\* two orders rest in the same level (same symbol, side and price)
SameLevel(i, j) ==
    \E s \in DOMAIN books, bs \in {"bids", "asks"} :
        \E p \in DOMAIN books[s][bs] :
            InSeq(books[s][bs][p], i) /\ InSeq(books[s][bs][p], j)

\* C3: of two orders resting in the same level, the later submitted one is
\* filled by a call only if that call leaves the earlier one with nothing
\* remaining.
C3_Fifo ==
    [][\A i \in Submitted, j \in Submitted :
          (i < j /\ SameLevel(i, j) /\ orders'[j].filled > orders[j].filled)
              => remaining(orders'[i]) = 0]_vars

\* two limit orders of one side and price: the earlier is partly filled and
\* the later, still resting behind it, is untouched
C3_Witness ==
    \E i \in Submitted, j \in Submitted :
        /\ i < j /\ SameLevel(i, j)
        /\ orders[i].status = "PARTIAL"
        /\ orders[j].filled = 0

\* the resting order of a trade and its aggressor: the aggressor is the order
\* that arrived last
RestingOf(t) == MinOf(t.buyer_order_id, t.seller_order_id)
AggressorOf(t) == IF t.buyer_order_id < t.seller_order_id
                  THEN t.seller_order_id ELSE t.buyer_order_id

\* C4: the one price of every trade is the price at which its resting order
\* rested.
C4_SinglePrice ==
    \A k \in 1..Len(trades) :
        trades[k].price = orders[RestingOf(trades[k])].price

\* a trade whose aggressor is a limit order with another limit price
C4_Witness ==
    \E k \in 1..Len(trades) :
        /\ orders[AggressorOf(trades[k])].order_type = "LIMIT"
        /\ orders[AggressorOf(trades[k])].price # trades[k].price

\* the trades a step adds to the tape
NewTrades == (Len(trades) + 1)..Len(trades')

\* an order rests on this side of some book
RestsOn(id, bs) ==
    \E s \in DOMAIN books : /\ id \in books[s].index
                            /\ orders[id].symbol = s
                            /\ BookSide(orders[id].side) = bs

\* C5: a limit buy never trades above its limit nor a limit sell below it,
\* and a call fills a resting order only if it leaves no order resting that
\* rested, before the call, on the same side at a strictly better price.
C5_PricePriority ==
    [][/\ \A k \in NewTrades :
            LET t == trades'[k]
                a == orders'[AggressorOf(t)]
            IN a.order_type = "LIMIT" =>
                  IF a.side = "BUY" THEN t.price <= a.price
                  ELSE t.price >= a.price
       /\ \A i \in Submitted, j \in Submitted, bs \in {"bids", "asks"} :
            (/\ RestsOn(i, bs) /\ RestsOn(j, bs)
             /\ orders[i].symbol = orders[j].symbol
             /\ IF bs = "asks" THEN orders[i].price < orders[j].price
                ELSE orders[i].price > orders[j].price
             /\ orders'[j].filled > orders[j].filled)
                => \A s \in DOMAIN books' : i \notin books'[s].index]_vars

\* one limit order traded at two prices, the better one first, both within
\* its limit
C5_Witness ==
    /\ Len(trades) >= 2
    /\ LET t1 == trades[Len(trades) - 1]
           t2 == trades[Len(trades)]
       IN /\ AggressorOf(t1) = AggressorOf(t2)
          /\ orders[AggressorOf(t1)].order_type = "LIMIT"
          /\ t1.price # t2.price

\* C6: process_order of an invalid order changes nothing: no book is created,
\* no trade is executed or recorded, no level or identity index changes and no
\* observer is notified.
C6_ValidationBeforeMutation ==
    [][(last'.op = "process" /\ Len(orders') = Len(orders) + 1
        /\ Invalid(orders'[Len(orders')]))
          => UNCHANGED <<books, trades, tradeSeen, orderSeen>>]_vars

\* what the three cases of C7 say of an id: never submitted, cancelled, or
\* nothing remaining
NotResting(id) ==
    \/ id \notin Submitted
    \/ orders[id].status = "CANCELLED"
    \/ remaining(orders[id]) = 0

\* C7: cancel_order of an id that was never submitted, was cancelled before or
\* is fully filled returns not-found and changes no level, no identity index
\* and no order.
C7_CancelNotFound ==
    [][(last'.op = "cancel" /\ NotResting(last'.id))
          => (~last'.found /\ UNCHANGED <<books, orders, trades>>)]_vars

\* a second cancel of the same order has answered not-found, and a cancel of
\* a fully filled order has
C7_Witness ==
    /\ last.op = "cancel" /\ ~last.found
    /\ last.id \in Submitted
    /\ \/ orders[last.id].status = "CANCELLED"
       \/ orders[last.id].status = "FILLED"

\* the two orders of the scenario were the first two submitted, and the buy
\* was not cancelled
C8_Scenario ==
    /\ Len(orders) = 2
    /\ orders[1].side = "BUY" /\ orders[1].order_type = "LIMIT"
    /\ orders[1].price = 50000 /\ orders[1].quantity = 2
    /\ orders[2].side = "SELL" /\ orders[2].order_type = "LIMIT"
    /\ orders[2].price = 49000 /\ orders[2].quantity = 1
    /\ orders[1].status # "CANCELLED"

\* C8: from the empty book, a limit buy of 0.1 (2 lots) at 50000 and then a
\* limit sell of 0.05 (1 lot) at 49000 give exactly one trade, of 0.05 at
\* 50000; the buy rests at 50000 with 0.05 remaining and no ask rests.
C8_PartialFill ==
    C8_Scenario =>
        /\ trades = <<[symbol |-> "BTC-PERP", price |-> 50000, quantity |-> 1,
                       buyer_order_id |-> 1, seller_order_id |-> 2]>>
        /\ books["BTC-PERP"].bids = SetLevel(NoLevels, 50000, <<1>>)
        /\ remaining(orders[1]) = 1
        /\ books["BTC-PERP"].asks = NoLevels
        /\ books["BTC-PERP"].index = {1}

\* the sell of the scenario has just been processed
C8_Witness == C8_Scenario /\ last.op = "process" /\ last.id = 2

\* the quantity the tape gives an order, as buyer or as seller
RECURSIVE TradedQty(_, _)
TradedQty(tape, id) ==
    IF tape = <<>> THEN 0
    ELSE (IF Head(tape).buyer_order_id = id \/ Head(tape).seller_order_id = id
          THEN Head(tape).quantity ELSE 0) + TradedQty(Tail(tape), id)

\* C9: in every interleaving of two requests no order's filled quantity
\* exceeds its quantity, and no order's quantity is given out twice: the
\* trades of an order add up to no more than its quantity.
C9_Serialized ==
    \A id \in Submitted :
        /\ orders[id].filled <= orders[id].quantity
        /\ TradedQty(trades, id) <= orders[id].quantity

\* the books hold no order with nothing remaining
NoDeadResting ==
    \A s \in DOMAIN books, bs \in {"bids", "asks"} :
        \A p \in DOMAIN books[s][bs] :
            \A k \in 1..Len(books[s][bs][p]) :
                remaining(orders[books[s][bs][p][k]]) > 0

\* C10: a process_order during which an observer raises still returns, every
\* observer but the raising one has been handed every trade, no fully filled
\* order is left in a level, and the limit remainder of the order is in the
\* book.
C10_ObserverIsolation ==
    (last.op = "process" /\ last.bad # NoBad) =>
        /\ ~last.raised
        /\ \A i \in 1..NObs :
              (last.bad # <<"trade", i>>) => Len(tradeSeen[i]) = Len(trades)
        /\ NoDeadResting
        /\ rests_after_match(orders[last.id])
              => \E s \in DOMAIN books : last.id \in books[s].index

\* every order submitted so far is one process_order should accept
AllValid == \A id \in Submitted : ~Invalid(orders[id])

\* the event an order observer is handed for an order as it now is
EventOf(id) == <<id, orders[id].status, orders[id].filled>>

\* C11: when an operation has returned, every trade observer has been called
\* for every trade of the tape, and every order observer has been called for
\* the status every order has been changed to, CANCELLED included (here
\* already for valid orders alone).
C11_NotifyEveryEvent ==
    AllValid => \A i \in 1..NObs :
        /\ tradeSeen[i] = [k \in 1..Len(trades) |-> k]
        /\ \A id \in Submitted :
              orders[id].status # "NEW" => InSeq(orderSeen[i], EventOf(id))

\* the ids in the levels of a book
InLevels(b) ==
    {id \in Submitted : \E bs \in {"bids", "asks"} :
        \E p \in DOMAIN b[bs] : InSeq(b[bs][p], id)}

\* the side of the book a taker of this side matches against
Opposite(side) == IF side = "BUY" THEN "asks" ELSE "bids"

\* C12: no order of type MARKET is in a price level or in the identity
\* index; when process_order of a market order has returned, the order has
\* nothing remaining or the opposite side of its book is empty, whatever the
\* prices there were.
C12_MarketNeverRests ==
    /\ \A s \in DOMAIN books : \A id \in Submitted :
          orders[id].order_type = "MARKET"
             => id \notin books[s].index /\ id \notin InLevels(books[s])
    /\ (last.op = "process" /\ orders[last.id].order_type = "MARKET")
          => \/ remaining(orders[last.id]) <= 0
             \/ books[orders[last.id].symbol][Opposite(orders[last.id].side)]
                    = NoLevels

\* a market order has traded, emptied the opposite side and was left with a
\* remainder that is nowhere in the book
C12_Witness ==
    /\ last.op = "process" /\ last.ntrades >= 1
    /\ orders[last.id].order_type = "MARKET"
    /\ orders[last.id].status = "PARTIAL"
    /\ remaining(orders[last.id]) > 0
    /\ \A id \in Submitted : id # last.id => orders[id].quantity > 0

\* the trades of one symbol, in tape order
TradesOf(symbol) == SelectSeq(trades, LAMBDA t : t.symbol = symbol)

\* the last n elements of a sequence
LastN(seq, n) == SubSeq(seq, Len(seq) - n + 1, Len(seq))

\* C13: for every symbol and every limit N >= 0, get_recent_trades(symbol, N)
\* is the last min(N, k) of the k trades of the symbol on the tape, in tape
\* order, so at most N trades (here already for valid orders alone).
C13_RecentTrades ==
    AllValid => \A symbol \in Symbols, N \in 0..MaxLimit :
        LET r == get_recent_trades(trades, symbol, N)
        IN /\ Len(r) <= N
           /\ r = LastN(TradesOf(symbol), MinOf(N, Len(TradesOf(symbol))))

\* C14: every step leaves the trades already on the tape where and as they
\* were; after it every trade observer has been handed every trade of the
\* tape exactly once and in tape order, and the trades of the tape add up,
\* for every order, to what the order has filled.
C14_ExactlyOnce ==
    [][/\ Len(trades') >= Len(trades)
       /\ SubSeq(trades', 1, Len(trades)) = trades
       /\ \A i \in 1..NObs : tradeSeen'[i] = [k \in 1..Len(trades') |-> k]
       /\ \A id \in 1..Len(orders') :
             TradedQty(trades', id) = orders'[id].filled]_vars

\* two trades are on the tape and a later cancel has taken an order out of
\* the book
C14_Witness ==
    /\ Len(trades) >= 2
    /\ last.op = "cancel" /\ last.found
    /\ \A i \in 1..NObs : Len(tradeSeen[i]) >= 2

\* whether price p comes before price q on a side of the book
Better(p, q, bs) == IF bs = "bids" THEN p > q ELSE p < q

\* C15: for every N, get_depth(N) has on each side min(N, number of levels)
\* entries, the i-th being the level with i - 1 better prices; its quantity
\* is the sum of the remaining quantities of the orders at that price, its
\* count is their number, and it has no other field.
C15_DepthAggregation ==
    \A s \in DOMAIN books, N \in 0..MaxLevels :
        \A bs \in {"bids", "asks"} :
            LET m == books[s][bs]
                e == get_depth(EngineState, s, N)[bs]
            IN /\ Len(e) = MinOf(N, Cardinality(DOMAIN m))
               /\ \A i \in 1..Len(e) :
                     /\ DOMAIN e[i] = {"price", "quantity", "count"}
                     /\ e[i].price \in DOMAIN m
                     /\ Cardinality({p \in DOMAIN m : Better(p, e[i].price, bs)})
                            = i - 1
                     /\ e[i].quantity = LevelRemaining(m[e[i].price])
                     /\ e[i].count = Len(m[e[i].price])

\* a bid side of two levels, one of them holding a partly filled order, cut
\* to its best level by get_depth(1)
C15_Witness ==
    \E s \in DOMAIN books :
        /\ Cardinality(DOMAIN books[s].bids) >= 2
        /\ Len(get_depth(EngineState, s, 1).bids) = 1
        /\ \E id \in InLevels(books[s]) :
              orders[id].filled > 0 /\ remaining(orders[id]) > 0

\* the step is a call of the Exchange of this kind
ExCall(op) == ops' # ops /\ last'.op = op

\* the positions of one owner in one symbol, in a list of positions
Held(plist, user_id, symbol) ==
    SelectSeq(plist, LAMBDA p : p.user_id = user_id /\ p.symbol = symbol)

\* C16: an open_position that returns a position has used the quote's ask as
\* entry price if the side is long and the bid otherwise, has reserved
\* margin = size * entry * margin_rate and has lowered the owner's balance by
\* exactly that margin, and no other balance; with balance 1,000,000, ask
\* 2,000,000, margin rate 0.05 and a long of size 1 the margin is 100,000 and
\* the balance 900,000.
C16_MarginOnOpen ==
    [][(ExCall("open") /\ last'.ret = "pos") =>
         LET u == last'.user_id
             q == quotes[last'.symbol]
             entry == IF last'.side = "long" THEN q.ask ELSE q.bid
             pos == last'.val
         IN /\ pos.entry_price = entry
            /\ pos.size = last'.size
            /\ pos.margin_used * 100
                  = last'.size * entry * PRODUCT_MAP[last'.symbol].margin_pct
            /\ balances' = [balances EXCEPT ![u] = @ - pos.margin_used]
            /\ (/\ balances[u] = 1000000 /\ last'.symbol = "XAU-MNT"
                /\ last'.side = "long" /\ last'.size = 1 /\ q.ask = 2000000)
                  => pos.margin_used = 100000 /\ balances'[u] = 900000]_vars

\* the scenario of C16 has happened
C16_Witness ==
    /\ last.op = "open" /\ last.ret = "pos"
    /\ last.symbol = "XAU-MNT" /\ last.side = "long" /\ last.size = 1
    /\ last.val.entry_price = 2000000
    /\ last.val.margin_used = 100000
    /\ balances[last.user_id] = 900000

\* the margin an open_position call of this owner, symbol, side and size needs
\* at the quotes as they are, in hundredths
MarginNeeded100(symbol, side, size) ==
    size * (IF side = "long" THEN quotes[symbol].ask ELSE quotes[symbol].bid)
         * PRODUCT_MAP[symbol].margin_pct

\* C17: an open_position of an owner whose balance is lower than the margin
\* required returns None and leaves the balances, the positions of the owner,
\* the positions of the symbol and the exposures as they were, and makes no
\* venue call.
C17_InsufficientMargin ==
    [][(/\ ExCall("open")
        /\ last'.symbol \in ExSymbols /\ last'.symbol \in DOMAIN quotes
        /\ balances[last'.user_id] * 100
              < MarginNeeded100(last'.symbol, last'.side, last'.size))
          => /\ last'.ret = "none"
             /\ UNCHANGED <<balances, positions, all_positions, exposures,
                            venueCalls, hlock>>]_vars

\* an owner with some money, but less than the margin, was refused on an
\* exchange that has a venue client
C17_Witness ==
    /\ last.op = "open" /\ last.ret = "none"
    /\ last.symbol \in ExSymbols /\ last.symbol \in DOMAIN quotes
    /\ balances[last.user_id] > 0
    /\ balances[last.user_id] * 100
          < MarginNeeded100(last.symbol, last.side, last.size)
    /\ fxcm = "client"

\* what the request threads of one owner have debited
DebitedBy(user_id) ==
    LET mine == {t \in Threads : /\ pc[t] # "idle"
                                  /\ loc[t].user_id = user_id
                                  /\ loc[t].debited}
    IN SumSet(mine, [t \in mine |-> loc[t].amount])

\* the two calls are for one owner, and the opening balance of 1,000,000
\* covers each of them but not both
Contended ==
    /\ \A t \in Threads : pc[t] \notin {"idle"}
    /\ loc[1].user_id = loc[2].user_id
    /\ loc[1].amount <= 1000000 /\ loc[2].amount <= 1000000
    /\ loc[1].amount + loc[2].amount > 1000000

\* C18: in every interleaving of two open_position or withdraw calls no
\* balance is below 0 and every balance is the opening balance less the
\* debits made (no debit is lost); when the two calls are for one owner whose
\* balance covers only one of them and both have returned, exactly one of
\* them has succeeded.
C18_AtomicCheckThenDebit ==
    /\ \A u \in Users :
          balances[u] >= 0 /\ balances[u] = 1000000 - DebitedBy(u)
    /\ (Contended /\ \A t \in Threads : pc[t] = "done")
          => Cardinality({t \in Threads : loc[t].ret \in {"pos", "true"}}) = 1

\* two contending calls have returned: an open_position that succeeded and
\* an open_position or withdraw that was refused
C18_Witness ==
    /\ Contended /\ \A t \in Threads : pc[t] = "done"
    /\ \E t \in Threads : loc[t].op = "open" /\ loc[t].ret = "pos"
    /\ \E t \in Threads : loc[t].ret \in {"none", "false"}

\* C19: every owner has at most one live position in each symbol, in the
\* positions of the owner and in the positions of the symbol (a second
\* successful open_position replaces or merges, it does not add).
C19_OnePositionPerOwnerSymbol ==
    \A u \in Users, symbol \in ExSymbols :
        /\ Len(Held(positions[u], u, symbol)) <= 1
        /\ Len(Held(all_positions[symbol], u, symbol)) <= 1

\* C20: a close_position that finds a position of the owner in the symbol
\* settles the first one it finds: the close price is the quote's bid if
\* that position is long and the ask if it is short, pnl is (close - entry) *
\* size for a long and (entry - close) * size for a short, the owner's
\* balance becomes the balance before + margin_used + pnl, new_balance is
\* that balance, and no position of the owner in the symbol is left in
\* either collection. The call does not return None when such a position and
\* a quote exist.
C20_CloseSettles ==
    [][(/\ ExCall("close")
        /\ last'.symbol \in DOMAIN quotes
        /\ Held(positions[last'.user_id], last'.user_id, last'.symbol) # <<>>)
          => LET u == last'.user_id
                 pos == Head(Held(positions[u], u, last'.symbol))
                 q == quotes[last'.symbol]
                 close == IF pos.side = "long" THEN q.bid ELSE q.ask
                 pnl == IF pos.side = "long"
                        THEN (close - pos.entry_price) * pos.size
                        ELSE (pos.entry_price - close) * pos.size
             IN /\ last'.ret # "none"
                /\ balances' = [balances EXCEPT
                                   ![u] = @ + pos.margin_used + pnl]
                /\ Held(positions'[u], u, last'.symbol) = <<>>
                /\ Held(all_positions'[last'.symbol], u, last'.symbol) = <<>>
                /\ last'.ret = "result"
                      => /\ last'.val.close_price = close
                         /\ last'.val.pnl = pnl
                         /\ last'.val.new_balance = balances'[u]]_vars

\* a short position was closed at a profit after the quote had moved
C20_Witness ==
    /\ last.op = "close" /\ last.ret = "result"
    /\ last.val.side = "short"
    /\ last.val.pnl > 0
    /\ last.val.new_balance = balances[last.user_id]

\* C21: a close_position of an owner who has no live position in the symbol
\* returns None and leaves every balance, every position of both collections
\* and every exposure as it was, and makes no venue call.
C21_CloseMissing ==
    [][(/\ ExCall("close")
        /\ Held(positions[last'.user_id], last'.user_id, last'.symbol) = <<>>)
          => /\ last'.ret = "none"
             /\ UNCHANGED <<balances, positions, all_positions, exposures,
                            venueCalls, hlock>>]_vars

\* on an exchange with a venue client, an owner who holds a position in
\* another symbol was answered None for a symbol that has a quote
C21_Witness ==
    /\ last.op = "close" /\ last.ret = "none"
    /\ last.symbol \in DOMAIN quotes
    /\ positions[last.user_id] # <<>>
    /\ fxcm = "client"

\* C22: a deposit of an amount that is not > 0 is rejected and leaves every
\* balance as it was; a deposit of an amount > 0 raises the balance of that
\* owner by the amount and changes no other balance and no position.
C22_DepositValidation ==
    [][ExCall("deposit") =>
         IF last'.size > 0
         THEN /\ balances' = [balances EXCEPT ![last'.user_id] = @ + last'.size]
              /\ UNCHANGED <<positions, all_positions>>
         ELSE /\ last'.ret # "ok"
              /\ UNCHANGED <<balances, positions, all_positions>>]_vars

\* the step is an open_position or close_position that went on to
\* update_exposure
TradingCall ==
    (ExCall("open") \/ ExCall("close")) /\ last'.ret \in {"pos", "result", "hung"}

\* the step is such a call whose update_exposure got the lock and computed a
\* hedge delta
ExposureCall == TradingCall /\ hlock = "free"

\* hedge_position of a symbol before the step
OldHedge(symbol) ==
    IF symbol \in DOMAIN exposures THEN exposures[symbol].hedge_position ELSE 0

\* the hedge delta update_exposure computes in the step: the net size of the
\* positions it is given, less the hedge position
NewDelta(symbol) ==
    sum_size(all_positions'[symbol], "long")
        - sum_size(all_positions'[symbol], "short") - OldHedge(symbol)

\* |delta| > HEDGE_THRESHOLD * max_order
AboveThreshold(delta, symbol) ==
    Abs(delta) * 100 > PRODUCT_MAP[symbol].max_order * HEDGE_THRESHOLD_PCT

\* the step has made exactly one venue call
OneVenueCall == Len(venueCalls') = Len(venueCalls) + 1

\* C23: an update_exposure that computes a hedge delta of at most
\* HEDGE_THRESHOLD * max_order in absolute value makes no venue call, leaves
\* hedge_position as it was and returns, also when the delta is not 0.
C23_Hysteresis ==
    [][(ExposureCall /\ ~AboveThreshold(NewDelta(last'.symbol), last'.symbol))
          => /\ venueCalls' = venueCalls
             /\ exposures'[last'.symbol].hedge_position
                    = OldHedge(last'.symbol)
             /\ exposures'[last'.symbol].hedge_needed = NewDelta(last'.symbol)
             /\ last'.ret # "hung"]_vars

\* on an exchange with a venue client a position was opened that left a
\* hedge delta of exactly the threshold, 5, and no venue call was added to
\* the one made before
C23_Witness ==
    /\ last.op = "open" /\ last.ret = "pos" /\ last.symbol = "USD-MNT"
    /\ fxcm = "client"
    /\ exposures["USD-MNT"].hedge_needed = 5
    /\ Len(venueCalls) = 1

\* C24: an update_exposure of an exchange with a venue client that computes
\* a hedge delta above HEDGE_THRESHOLD * max_order in absolute value issues
\* exactly one order to the venue, for that symbol, buy if the delta is
\* positive and sell if it is negative, of the size of the delta (in the
\* venue's lots of 1000 units).
C24_HedgeAboveThreshold ==
    [][(/\ ExposureCall /\ fxcm = "client"
        /\ AboveThreshold(NewDelta(last'.symbol), last'.symbol))
          => /\ OneVenueCall
             /\ LET call == venueCalls'[Len(venueCalls')]
                    delta == NewDelta(last'.symbol)
                IN /\ call.symbol = last'.symbol
                   /\ call.side = IF delta > 0 THEN "buy" ELSE "sell"
                   /\ call.lots * 1000
                        = Abs(delta) * PRODUCT_MAP[last'.symbol].contract_size
       ]_vars

\* C25: when the venue returns a trade id for the hedge order of an
\* update_exposure, the call returns, hedge_position has been increased by
\* the hedge delta that was sent, and hedge_needed is net_exposure -
\* hedge_position, which is 0.
C25_HedgeCommit ==
    [][(/\ ExposureCall /\ OneVenueCall
        /\ venueCalls'[Len(venueCalls')].outcome = "id")
          => /\ last'.ret # "hung"
             /\ exposures'[last'.symbol].hedge_position
                    = OldHedge(last'.symbol) + NewDelta(last'.symbol)
             /\ exposures'[last'.symbol].hedge_needed = 0]_vars

\* the venue call made last has failed: it returned None or raised
LastCallFailed ==
    venueCalls # <<>> /\ venueCalls[Len(venueCalls)].outcome # "id"

\* C26: when the venue call of an update_exposure returns None or raises,
\* hedge_position is as it was, hedge_needed is the outstanding net_exposure -
\* hedge_position, the lock is free again and the open_position or
\* close_position returns its position or result; and the next
\* update_exposure for the symbol that finds the delta above the threshold
\* calls the venue again.
C26_VenueFailureContained ==
    [][/\ (/\ ExposureCall /\ OneVenueCall
           /\ venueCalls'[Len(venueCalls')].outcome # "id")
             => /\ last'.ret \in {"pos", "result"}
                /\ exposures'[last'.symbol].hedge_position
                       = OldHedge(last'.symbol)
                /\ exposures'[last'.symbol].hedge_needed
                       = exposures'[last'.symbol].net_exposure
                            - exposures'[last'.symbol].hedge_position
                /\ exposures'[last'.symbol].hedge_needed
                       = NewDelta(last'.symbol)
                /\ hlock' = "free"
       /\ (/\ TradingCall /\ LastCallFailed
           /\ venueCalls[Len(venueCalls)].symbol = last'.symbol
           /\ AboveThreshold(NewDelta(last'.symbol), last'.symbol))
             => /\ OneVenueCall
                /\ venueCalls'[Len(venueCalls')].symbol = last'.symbol
                /\ venueCalls'[Len(venueCalls')].lots * 1000
                     = Abs(NewDelta(last'.symbol))
                          * PRODUCT_MAP[last'.symbol].contract_size]_vars

\* the venue failed twice for one symbol: the hedge was tried, failed, and
\* was tried again by the next call, which has returned its position with
\* the delta of 7 still outstanding
C26_Witness ==
    /\ Len(venueCalls) = 2
    /\ venueCalls[1].symbol = venueCalls[2].symbol
    /\ venueCalls[1].outcome = "none" /\ venueCalls[2].outcome = "raise"
    /\ last.op = "open" /\ last.ret = "pos"
    /\ exposures[last.symbol].hedge_position = 0
    /\ exposures[last.symbol].hedge_needed = 7
    /\ hlock = "free"

\* C27: while a venue call is in flight, the HedgingEngine lock is free.
C27_NoLockAcrossVenueCall ==
    \A t \in Threads : pc[t] = "h_venue" => hlock = "free"

\* C28: after every funding-rate update the absolute value of the funding
\* rate of every symbol is at most MAX_FUNDING_RATE.
C28_FundingCap ==
    \A s \in DOMAIN funding_rates :
        Abs(funding_rates[s].rate.n)
            <= MAX_FUNDING_RATE * funding_rates[s].rate.d

\* a turn of the update loop: the only step that reads the clock
LoopTurn == now' # now

\* C29: a funding-rate update leaves rate - base = (mark - index) / index
\* clamped to [-cap, +cap], so |rate - base| <= cap; with no price or with
\* index 0 the rate is left as it was.
C29_PremiumClamp ==
    [][LoopTurn =>
        \A s \in DOMAIN funding_rates :
            LET r == funding_rates'[s].rate
                p == r.n - BASE_INTEREST_RATE * r.d
            IN IF s \in DOMAIN prices /\ prices[s].index_price # 0
               THEN LET m == prices[s].mark_price
                        i == prices[s].index_price \div PRICE_SCALE
                        x == (m - prices[s].index_price)
                             * (RATE_UNITS \div PRICE_SCALE)
                    IN /\ r.d > 0
                       /\ Abs(p) <= MAX_FUNDING_RATE * r.d
                       /\ IF x > MAX_FUNDING_RATE * i
                          THEN p = MAX_FUNDING_RATE * r.d
                          ELSE IF x < -MAX_FUNDING_RATE * i
                               THEN p = -MAX_FUNDING_RATE * r.d
                               ELSE p * i = x * r.d
               ELSE r = funding_rates[s].rate]_vars

\* a rate computed from the present prices of a symbol whose premium is
\* neither 0 nor clamped, beside a symbol whose rate was computed from a
\* clamped negative premium
C29_Witness ==
    \E s \in DOMAIN funding_rates, c \in DOMAIN funding_rates :
        /\ s \in DOMAIN prices
        /\ prices[s].index_price # 0
        /\ prices[s].mark_price # prices[s].index_price
        /\ LET r == funding_rates[s].rate
           IN /\ r.d = prices[s].index_price \div PRICE_SCALE
              /\ r.n - BASE_INTEREST_RATE * r.d
                     = (prices[s].mark_price - prices[s].index_price)
                       * (RATE_UNITS \div PRICE_SCALE)
              /\ Abs(r.n - BASE_INTEREST_RATE * r.d) < MAX_FUNDING_RATE * r.d
        /\ LET r == funding_rates[c].rate
           IN r.n - BASE_INTEREST_RATE * r.d = -MAX_FUNDING_RATE * r.d

\* C30: the next-payment time of every symbol is a whole multiple of
\* FUNDING_INTERVAL, a boundary is settled once, and the due time that
\* follows a settled one is exactly FUNDING_INTERVAL after it.
C30_FixedBoundaries ==
    /\ \A s \in DOMAIN funding_rates :
           funding_rates[s].payment_due % FUNDING_INTERVAL = 0
    /\ \A e \in settlements :
           /\ \A f \in settlements :
                  f.symbol = e.symbol /\ f.due = e.due => f = e
           /\ \/ funding_rates[e.symbol].payment_due
                     = e.due + FUNDING_INTERVAL
              \/ \E f \in settlements :
                     f.symbol = e.symbol /\ f.due = e.due + FUNDING_INTERVAL

\* a quote handled by the index service
QuoteStep == nquotes' # nquotes

\* C31: a quote of a symbol stores the mid as the index price; the mark is
\* the mid on the first quote and alpha * mid + (1 - alpha) * previous mark,
\* to the unit of prices, on a later one, so it lies between the previous
\* mark and the mid; the prices of the other symbols stay as they were.
C31_MarkSmoothing ==
    [][QuoteStep =>
        \E s \in IdxSymbols :
            /\ s \in DOMAIN prices'
            /\ LET mid == prices'[s].index_price
                   mark == prices'[s].mark_price
               IN /\ mid \in Mids
                  /\ IF s \notin DOMAIN prices
                     THEN mark = mid
                     ELSE LET prev == prices[s].mark_price
                              exact == EMA_ALPHA * mid
                                       + (EMA_SCALE - EMA_ALPHA) * prev
                          IN /\ EMA_SCALE * mark <= exact
                             /\ exact < EMA_SCALE * (mark + 1)
                             /\ MinOf(prev, mid) <= mark
                             /\ mark <= MaxOf(prev, mid)
            /\ DOMAIN prices' = DOMAIN prices \cup {s}
            /\ \A o \in DOMAIN prices \ {s} : prices'[o] = prices[o]]_vars

\* both symbols have prices, and the mark of one that had a later quote is
\* strictly between its first mid and its present index price
C31_Witness ==
    /\ DOMAIN prices = IdxSymbols
    /\ \E s \in IdxSymbols :
           /\ prices[s].mark_price > prices[s].index_price
           /\ prices[s].mark_price < Max(Mids)
           /\ prices[s].index_price # 0

\* C32: while no update_exposure holds the HedgingEngine lock, every recorded
\* exposure has net_exposure = net_long - net_short and
\* hedge_needed = net_exposure - hedge_position.
C32_ExposureIdentities ==
    hlock = "free" =>
        \A s \in DOMAIN exposures :
            /\ exposures[s].net_exposure
                   = exposures[s].net_long - exposures[s].net_short
            /\ exposures[s].hedge_needed
                   = exposures[s].net_exposure - exposures[s].hedge_position

\* no update in progress, and a symbol with users on both sides and a delta
C32_Witness ==
    /\ hlock = "free"
    /\ \A t \in Threads : pc[t] = "idle"
    /\ \E s \in DOMAIN exposures :
           /\ exposures[s].net_long > 0
           /\ exposures[s].net_short > 0
           /\ exposures[s].hedge_needed # 0

\* the last process_order or cancel_order has returned
Returned == last.op \in {"process", "cancel"} /\ ~last.raised

\* how often an order is in the level list of its own price on its own side
OwnLevelCount(b, id) ==
    LET bs == BookSide(orders[id].side)
        p == orders[id].price
    IN IF p \in DOMAIN b[bs]
       THEN Cardinality({k \in 1..Len(b[bs][p]) : b[bs][p][k] = id})
       ELSE 0

\* C33: when process_order or cancel_order has returned, an order is in the
\* identity index of a book exactly if it is once in the level of its own
\* price on its own side, no level is empty and no resting order has
\* remaining 0.
C33_BookStructure ==
    Returned =>
        \A s \in DOMAIN books :
            /\ \A id \in Submitted :
                  id \in books[s].index
                      <=> (orders[id].symbol = s
                           /\ OwnLevelCount(books[s], id) = 1)
            /\ \A bs \in {"bids", "asks"} : \A p \in DOMAIN books[s][bs] :
                  /\ books[s][bs][p] # <<>>
                  /\ \A k \in 1..Len(books[s][bs][p]) :
                        remaining(orders[books[s][bs][p][k]]) # 0

\* the status the fill of an order stands for
StatusOfFill(o) ==
    IF o.filled = o.quantity THEN "FILLED"
    ELSE IF o.filled = 0 THEN "NEW" ELSE "PARTIAL"

\* C34: every submitted order with quantity > 0 has 0 <= filled <= quantity,
\* and its status is CANCELLED or the one its fill stands for: FILLED for
\* filled = quantity, PARTIAL for 0 < filled < quantity, NEW for filled = 0
\* (here already for the states in which no request is in progress).
C34_FillAndStatus ==
    (\A t \in Threads : pc[t] = "idle") =>
        \A id \in Submitted :
            orders[id].quantity > 0 =>
                /\ 0 <= orders[id].filled
                /\ orders[id].filled <= orders[id].quantity
                /\ orders[id].status \in {"CANCELLED", StatusOfFill(orders[id])}

\* a cancel_order that returned the order
CancelFound == last'.op = "cancel" /\ last'.found /\ orders' # orders

\* C35: cancel_order of a resting order gives it the status CANCELLED, takes
\* it out of its level and of the identity index, drops the level if nothing
\* is left in it, and changes neither its filled quantity nor any other
\* order, level or the order of the others in its level; an order that is
\* CANCELLED is in no trade made later.
C35_CancelEffect ==
    [][/\ CancelFound =>
            LET id == last'.id
                o == orders[id]
                b == books[o.symbol]
                bs == BookSide(o.side)
                rest == SeqWithout(b[bs][o.price], id)
            IN /\ orders' = [orders EXCEPT ![id].status = "CANCELLED"]
               /\ trades' = trades
               /\ books' = [books EXCEPT ![o.symbol] =
                     [b EXCEPT !.index = @ \ {id},
                               ![bs] = IF rest = <<>> THEN DelLevel(@, o.price)
                                       ELSE SetLevel(@, o.price, rest)]]
               /\ id \notin books'[o.symbol].index
               /\ id \notin InLevels(books'[o.symbol])
       /\ \A k \in (Len(trades) + 1)..Len(trades'), id \in Submitted :
            orders[id].status = "CANCELLED" =>
                /\ trades'[k].buyer_order_id # id
                /\ trades'[k].seller_order_id # id
      ]_vars

\* a partly filled order has been cancelled, another order is left in its
\* level
C35_Witness ==
    /\ last.op = "cancel" /\ last.found
    /\ orders[last.id].status = "CANCELLED"
    /\ orders[last.id].filled > 0
    /\ LET o == orders[last.id]
       IN /\ o.price \in DOMAIN books[o.symbol][BookSide(o.side)]
          /\ last.id \notin books[o.symbol].index

\* C36: every update_exposure that has been called returns, whatever the
\* venue does, and the call that made it returns with it.
C36_UpdateExposureReturns ==
    \A t \in Threads : (pc[t] = "h_args") ~> (pc[t] = "idle")

\* C37: when every open_position and close_position call has returned, the
\* recorded net_long and net_short of a symbol are the sums of the sizes of
\* its live long and short positions.
C37_ExposureMatchesPositions ==
    (\A t \in Threads : pc[t] = "idle") =>
        \A s \in DOMAIN exposures :
            /\ exposures[s].net_long = sum_size(all_positions[s], "long")
            /\ exposures[s].net_short = sum_size(all_positions[s], "short")

\* the margin the live positions of an owner hold
RECURSIVE MarginHeld(_)
MarginHeld(plist) ==
    IF plist = <<>> THEN 0
    ELSE Head(plist).margin_used + MarginHeld(Tail(plist))

\* the balance of an owner and the margin of the owner's live positions
Wealth(bal, pos, u) == bal[u] + MarginHeld(pos[u])

\* what a call that has returned adds to the money of its user: the amount
\* deposited, or the pnl close_position returns
Credited ==
    IF last'.op = "deposit" THEN last'.size
    ELSE IF last'.op = "close" /\ last'.ret = "result" THEN last'.val.pnl
    ELSE 0

\* C38: a deposit, open_position or close_position that returns changes
\* balance + margin held by live positions of its user by the amount
\* deposited or the pnl returned, and of every other owner by nothing; so
\* the sum stays total deposited + total pnl, and no margin is lost.
C38_MarginNeverLost ==
    [][(ops' # ops /\ last'.op \in {"deposit", "open", "close"}
        /\ last'.ret # "hung") =>
          \A u \in Users :
              Wealth(balances', positions', u)
                  = Wealth(balances, positions, u)
                    + (IF u = last'.user_id THEN Credited ELSE 0)]_vars

\* C39: after deposits, withdrawals, open_position and close_position calls
\* with positive amounts and sizes, and any quotes, no balance is below 0.
C39_BalancesNonNegative == \A u \in Users : balances[u] >= 0

\* C40: process_order of an order of symbol A leaves A with a book, adds no
\* other book and changes the book of no other symbol; the buy order and the
\* sell order of every trade have the symbol of the trade.
C40_SymbolIsolation ==
    [][(last'.op = "process" /\ Len(orders') = Len(orders) + 1) =>
          LET A == orders'[last'.id].symbol
          IN /\ DOMAIN books' = DOMAIN books \cup {A}
             /\ \A B \in DOMAIN books \ {A} : books'[B] = books[B]
             /\ A \notin DOMAIN books /\ trades' = trades
                    => books'[A].index \subseteq {last'.id}
             /\ \A k \in 1..Len(trades') :
                   LET b == orders'[trades'[k].buyer_order_id]
                       a == orders'[trades'[k].seller_order_id]
                   IN /\ b.symbol = trades'[k].symbol /\ b.side = "BUY"
                      /\ a.symbol = trades'[k].symbol /\ a.side = "SELL"]_vars

\* both symbols have a book with a resting order, and there has been a trade
C40_Witness ==
    /\ DOMAIN books = Symbols
    /\ \A s \in Symbols : books[s].index # {}
    /\ trades # <<>>

====
